---- MODULE Spec2Model ----
(***************************************************************************)
(* HEIST multiplayer server (src/server.js, v2.0 part, lines 1-1408).      *)
(* The world state of one room is the record `state`; every handler of the *)
(* server is an operator from world state to world state, translated       *)
(* statement by statement, and every action applies one handler.           *)
(* Coordinates are 0-based as in the source; sequences are 1-based, so the *)
(* tile at (x, y) is map[y + 1][x + 1].                                    *)
(***************************************************************************)
EXTENDS Integers, Sequences, FiniteSets, TLC

VARIABLES
  state,    \* room.gameState: the world state of the room
  pc,       \* the interval callback: "idle", or "ticked" between its
            \* tickRoom and its broadcastState; "crashed" once the process
            \* has ended
  room,     \* the entry of the registry `rooms` that the run follows
  conns,    \* per connection: ws.readyState and the closure variables
            \* playerId, roomCode, role of wss.on('connection')
  timeouts, \* the pending setTimeout callbacks of ws.on('close'), each as
            \* the time left until it runs
  sent      \* the frames written by the latest handler that reached a send

vars == <<state, pc, room, conns, timeouts, sent>>

----------------------------------------------------------------------------
(* Bounds of the model and constants of the program *)

\* simulated time up to which the interval timer is followed, per specification
MaxTimerLoot == 1000
MaxTimerGuard == 300
MaxTimerDetect == 1200
MaxTimerAlarm == 10000
MaxTimerHack == 600
\* one-shot sound events that may be queued by intents between two broadcasts
MaxQueued == 1
MaxTimerBattery == 2600
MaxTimerSession == 200
MaxTimerLaser == 3000
MaxTimerRun == 200
MaxTimerFreeze == 3200
MaxTimerWard == 1600
MaxTimerDoors == 3600
MaxTimerNoise == 1200
MaxTimerTimers == 100
MaxTimerEnd == 3200
\* the largest dx and dy a move message carries
MaxStride == 2
\* connections accepted in a run
MaxConns == 3
\* the longest time let pass between two events while a teardown is pending
MaxElapse == 60000

\* generateLevel: the width and the height of the grid, and the number of
\* rooms placed
GenW == 12
GenH == 6
MaxRooms == 2

\* generateLevel: the number of picks that take the first floor tile left
MaxFront == 21
\* the fixed delta of the room's interval timer
Dt == 100
\* the delay of the teardown scheduled by ws.on('close')
Grace == 120000
\* the last level of a run
MaxLevels == 5

----------------------------------------------------------------------------
(* Arithmetic and sequence helpers *)

Abs(n) == IF n < 0 THEN -n ELSE n

Max(a, b) == IF a >= b THEN a ELSE b

Min(a, b) == IF a <= b THEN a ELSE b

\* Math.abs(ax - bx) + Math.abs(ay - by)
Manhattan(ax, ay, bx, by) == Abs(ax - bx) + Abs(ay - by)

\* a tile position {x, y}
Pos(x, y) == [x |-> x, y |-> y]

\* the JavaScript null of lastKnownThief, investigateTarget, pickTarget
Null == [x |-> -1, y |-> -1]

\* the JavaScript null of drone.ping
NoPing == [x |-> -1, y |-> -1, timer |-> 0]

\* Array.prototype.find on the positions of a list: index of the first
\* element of seq satisfying Test, 0 when there is none
FirstIdx(seq, Test(_)) ==
  IF \E i \in DOMAIN seq : Test(seq[i])
  THEN CHOOSE i \in DOMAIN seq : Test(seq[i]) /\ \A j \in 1..(i - 1) : ~Test(seq[j])
  ELSE 0

\* number of elements of seq equal to e
Count(seq, e) == Cardinality({i \in DOMAIN seq : seq[i] = e})

\* the elements of seq satisfying Test, in order
RECURSIVE Filter(_, _)
Filter(seq, keep) ==
  IF seq = <<>> THEN <<>>
  ELSE IF keep[1] THEN <<seq[1]>> \o Filter(Tail(seq), Tail(keep))
       ELSE Filter(Tail(seq), Tail(keep))

\* a screen-shake event
Shake(i, d) == [intensity |-> i, duration |-> d]

----------------------------------------------------------------------------
(* Map access *)

Tile(s, x, y) == s.map[y + 1][x + 1]

SetTile(map, x, y, t) == [map EXCEPT ![y + 1][x + 1] = t]

InGrid(s, x, y) == x >= 0 /\ x < s.mapWidth /\ y >= 0 /\ y < s.mapHeight

\* an isWalkable that lets the thief through closed doors
isWalkableThroughDoors(s, x, y) ==
  IF ~InGrid(s, x, y) THEN FALSE
  ELSE LET tile == Tile(s, x, y)
           si == FirstIdx(s.safes, LAMBDA f : f.x = x /\ f.y = y)
       IN IF tile = "#" THEN FALSE
          ELSE IF tile = "S" /\ si # 0 /\ ~s.safes[si].open THEN FALSE
          ELSE TRUE

\* isWalkable(state, x, y)
isWalkable(s, x, y) ==
  IF ~InGrid(s, x, y) THEN FALSE
  ELSE LET tile == Tile(s, x, y)
           si == FirstIdx(s.safes, LAMBDA f : f.x = x /\ f.y = y)
           di == FirstIdx(s.doors, LAMBDA d : d.x = x /\ d.y = y)
       IN IF tile = "#" THEN FALSE
          ELSE IF tile = "S" /\ si # 0 /\ ~s.safes[si].open THEN FALSE
          ELSE IF tile \in {"D", "L"} /\ di # 0 /\ ~s.doors[di].open THEN FALSE
          ELSE TRUE

\* isBlockedForVision(state, x, y)
isBlockedForVision(s, x, y) ==
  IF ~InGrid(s, x, y) THEN TRUE
  ELSE LET tile == Tile(s, x, y)
           di == FirstIdx(s.doors, LAMBDA d : d.x = x /\ d.y = y)
       IN IF tile = "#" THEN TRUE
          ELSE IF tile \in {"D", "L"} /\ di # 0 /\ ~s.doors[di].open THEN TRUE
          ELSE \E i \in DOMAIN s.smokeClouds :
                 Abs(s.smokeClouds[i].x - x) <= 1 /\ Abs(s.smokeClouds[i].y - y) <= 1

----------------------------------------------------------------------------
(* Bonus objectives *)

\* the ids of OBJECTIVE_TEMPLATES
ObjectiveIds ==
  {"speed_demon", "ghost", "hacker", "collector", "efficient", "untouchable",
   "locksmith", "freeze_master"}

\* OBJECTIVE_TEMPLATES[id].check(s)
ObjectiveCheck(id, s) ==
  CASE id = "speed_demon"   -> s.timer < 90000
    [] id = "ghost"         -> ~s.alertTriggered
    [] id = "hacker"        -> s.drone.hacks >= 3
    [] id = "collector"     -> \A i \in DOMAIN s.loot : s.loot[i].primary \/ s.loot[i].collected
    [] id = "efficient"     -> s.drone.battery >= 50
    [] id = "untouchable"   -> s.thief.hp = s.thief.maxHp
    [] id = "locksmith"     -> s.thief.locksPicked >= 2
    [] id = "freeze_master" -> s.guardsHacked >= 3

\* pickObjectives(2) for the drawn pair of ids
pickObjectives(ids) == [i \in DOMAIN ids |-> [id |-> ids[i], completed |-> FALSE]]

----------------------------------------------------------------------------
(* Game state factory *)

\* `x || d` on a number: d when x is 0
OrDefault(x, d) == IF x = 0 THEN d ELSE x

\* the stats createGameState reads from prevState; exists = FALSE is the
\* call createGameState(level, null)
NoPrevState ==
  [exists |-> FALSE,
   thief |-> [maxHp |-> 3, pickSpeed |-> 3000, visionRadius |-> 4, sprintDuration |-> 2000,
              noiseCharges |-> 2, smokeCharges |-> 1],
   drone |-> [maxBattery |-> 100, chargeSpeed |-> 3000, freezeDuration |-> 5000,
              hackCost |-> 25, empCharges |-> 1, decoyCharges |-> 1]]

\* createGameState(level, prevState), for the level layout ld drawn by
\* generateLevel and the objective ids drawn by pickObjectives
createGameState(level, prevState, ld, objIds) ==
  [level |-> level,
   map |-> ld.map,
   mapWidth |-> ld.width,
   mapHeight |-> ld.height,
   thief |->
     [x |-> ld.thiefStart.x, y |-> ld.thiefStart.y,
      hp |-> IF prevState.exists THEN prevState.thief.maxHp ELSE 3,
      maxHp |-> IF prevState.exists THEN prevState.thief.maxHp ELSE 3,
      loot |-> 0, totalLoot |-> 0,
      picking |-> FALSE, pickTimer |-> 0, pickTarget |-> Null,
      pickSpeed |-> IF prevState.exists THEN OrDefault(prevState.thief.pickSpeed, 3000) ELSE 3000,
      spotted |-> FALSE, invulnTimer |-> 0, action |-> "Idle",
      visionRadius |-> IF prevState.exists THEN OrDefault(prevState.thief.visionRadius, 4) ELSE 4,
      sprinting |-> FALSE, sprintTimer |-> 0,
      sprintDuration |-> IF prevState.exists THEN OrDefault(prevState.thief.sprintDuration, 2000) ELSE 2000,
      sprintCooldown |-> 0, sprintCooldownMax |-> 10000,
      noiseCharges |-> IF prevState.exists THEN OrDefault(prevState.thief.noiseCharges, 2) ELSE 2,
      smokeCharges |-> IF prevState.exists THEN OrDefault(prevState.thief.smokeCharges, 1) ELSE 1,
      locksPicked |-> 0],
   drone |->
     [x |-> ld.width \div 2, y |-> ld.height \div 2,
      battery |-> IF prevState.exists THEN prevState.drone.maxBattery ELSE 100,
      maxBattery |-> IF prevState.exists THEN prevState.drone.maxBattery ELSE 100,
      hacks |-> 0,
      charging |-> FALSE, chargeTimer |-> 0,
      chargeSpeed |-> IF prevState.exists THEN OrDefault(prevState.drone.chargeSpeed, 3000) ELSE 3000,
      freezeDuration |-> IF prevState.exists THEN OrDefault(prevState.drone.freezeDuration, 5000) ELSE 5000,
      hackCost |-> IF prevState.exists THEN OrDefault(prevState.drone.hackCost, 25) ELSE 25,
      empCharges |-> IF prevState.exists THEN OrDefault(prevState.drone.empCharges, 1) ELSE 1,
      decoyCharges |-> IF prevState.exists THEN OrDefault(prevState.drone.decoyCharges, 1) ELSE 1,
      ping |-> NoPing],
   guards |-> ld.guards,
   doors |-> ld.doors,
   loot |-> ld.loot,
   cameras |-> ld.cameras,
   chargingPads |-> ld.chargingPads,
   alarmPanels |-> ld.alarmPanels,
   lasers |-> ld.lasers,
   tripwires |-> ld.tripwires,
   safes |-> ld.safes,
   exitPos |-> ld.exitPos,
   alarmActive |-> FALSE,
   alarmTimer |-> 0,
   primaryLootTotal |-> Cardinality({i \in DOMAIN ld.loot : ld.loot[i].primary}),
   primaryLootCollected |-> 0,
   bonusLootCollected |-> 0,
   exitOpen |-> FALSE,
   gameOver |-> FALSE,
   gameWon |-> FALSE,
   timer |-> 0,
   score |-> 0,
   alertTriggered |-> FALSE,
   guardsHacked |-> 0,
   noisemakers |-> <<>>,
   smokeClouds |-> <<>>,
   decoys |-> <<>>,
   objectives |-> pickObjectives(objIds),
   shakeEvents |-> <<>>,
   sounds |-> <<>>]

----------------------------------------------------------------------------
(* Thief intents *)

\* moveThief, "Laser grid check": contact damage at the destination tile
moveLaser(s, nx, ny) ==
  LET li == FirstIdx(s.lasers, LAMBDA l : l.x = nx /\ l.y = ny /\ l.active) IN
  IF li # 0 /\ s.thief.invulnTimer <= 0
  THEN LET hit == [s EXCEPT !.thief.hp = @ - 1,
                            !.thief.invulnTimer = 1500,
                            !.sounds = Append(@, "hit"),
                            !.shakeEvents = Append(@, Shake(3, 300))]
       IN IF hit.thief.hp <= 0
          THEN [hit EXCEPT !.gameOver = TRUE,
                           !.sounds = Append(@, "gameOver"),
                           !.shakeEvents = Append(@, Shake(8, 500))]
          ELSE hit
  ELSE s

\* moveThief: the step onto the destination tile
moveStep(s, nx, ny) ==
  [s EXCEPT !.thief.x = nx, !.thief.y = ny, !.sounds = Append(@, "move")]

\* moveThief, "Tripwire check"
moveTripwire(s, nx, ny) ==
  LET ti == FirstIdx(s.tripwires, LAMBDA t : t.x = nx /\ t.y = ny /\ ~t.triggered) IN
  IF ti = 0 THEN s
  ELSE LET t1 == [s EXCEPT !.tripwires[ti].triggered = TRUE,
                           !.map = SetTile(@, nx, ny, ".")]
       IN IF ~t1.alarmActive
          THEN [t1 EXCEPT !.alarmActive = TRUE,
                          !.alarmTimer = 10000,
                          !.thief.spotted = TRUE,
                          !.thief.action = "TRIPWIRE!",
                          !.alertTriggered = TRUE,
                          !.sounds = Append(@, "alarm"),
                          !.shakeEvents = Append(@, Shake(4, 400))]
          ELSE t1

\* moveThief, "Loot pickup": the exit unlocks when all primary loot is collected
moveLoot(s, nx, ny) ==
  LET li == FirstIdx(s.loot, LAMBDA l : l.x = nx /\ l.y = ny /\ ~l.collected) IN
  IF li = 0 THEN s
  ELSE LET p1 == [s EXCEPT !.loot[li].collected = TRUE,
                           !.thief.loot = @ + 1,
                           !.thief.totalLoot = @ + 1,
                           !.primaryLootCollected = IF s.loot[li].primary THEN @ + 1 ELSE @,
                           !.bonusLootCollected = IF s.loot[li].primary THEN @ ELSE @ + 1,
                           !.map = SetTile(@, nx, ny, "."),
                           !.sounds = Append(@, "loot")]
       IN IF p1.primaryLootCollected >= p1.primaryLootTotal
          THEN [p1 EXCEPT !.exitOpen = TRUE, !.sounds = Append(@, "doorOpen")]
          ELSE p1

\* a safe loop that opens the safe under the cursor wherever the thief stands
RECURSIVE moveSafesCursorOnly(_, _, _, _)
moveSafesCursorOnly(s, nx, ny, i) ==
  IF i > Len(s.safes) THEN s
  ELSE LET safe == s.safes[i]
           droneOn == s.drone.x = safe.x /\ s.drone.y = safe.y
       IN IF ~safe.open /\ droneOn
          THEN moveSafesCursorOnly([s EXCEPT !.safes[i].open = TRUE,
                                             !.map = SetTile(@, safe.x, safe.y, "."),
                                             !.score = @ + safe.lootValue,
                                             !.sounds = @ \o <<"loot", "hack">>],
                                   nx, ny, i + 1)
          ELSE moveSafesCursorOnly(s, nx, ny, i + 1)

\* moveThief, "Safe interaction": the loop over state.safes, from index i
RECURSIVE moveSafes(_, _, _, _)
moveSafes(s, nx, ny, i) ==
  IF i > Len(s.safes) THEN s
  ELSE LET safe == s.safes[i]
           adjacent == Abs(nx - safe.x) + Abs(ny - safe.y) = 1
           droneOn == s.drone.x = safe.x /\ s.drone.y = safe.y
       IN IF ~safe.open /\ adjacent /\ droneOn
          THEN moveSafes([s EXCEPT !.safes[i].open = TRUE,
                                   !.map = SetTile(@, safe.x, safe.y, "."),
                                   !.score = @ + safe.lootValue,
                                   !.sounds = @ \o <<"loot", "hack">>],
                         nx, ny, i + 1)
          ELSE moveSafes(s, nx, ny, i + 1)

\* the points of the bonus objectives whose check holds in s
ObjectivePoints(s) ==
  1000 * Cardinality({i \in DOMAIN s.objectives : ObjectiveCheck(s.objectives[i].id, s)})

\* a faulty win score that pays the no-alarm bonus unconditionally (the
\* fault C5 excludes)
WinScoreAlwaysQuiet(s) ==
  s.primaryLootCollected * 1000
  + s.bonusLootCollected * 500
  + Max(0, 3000 - (s.timer \div 1000) * 10)
  + 2000
  + ObjectivePoints(s)

\* the score added by the win: loot, time bonus, no-alarm bonus, objectives
WinScore(s) ==
  s.primaryLootCollected * 1000
  + s.bonusLootCollected * 500
  + Max(0, 3000 - (s.timer \div 1000) * 10)
  + (IF ~s.alertTriggered THEN 2000 ELSE 0)
  + ObjectivePoints(s)

\* a faulty exit check that forgets state.exitOpen (the fault C3 excludes)
moveExitUnlocked(s, nx, ny) ==
  IF Tile(s, nx, ny) = ">"
  THEN [s EXCEPT !.gameWon = TRUE,
                 !.score = @ + WinScore(s),
                 !.sounds = Append(@, "victory")]
  ELSE s

\* moveThief, "Exit check": win scoring
moveExit(s, nx, ny) ==
  IF Tile(s, nx, ny) = ">" /\ s.exitOpen
  THEN [s EXCEPT !.gameWon = TRUE,
                 !.score = @ + WinScore(s),
                 !.objectives = [i \in DOMAIN @ |->
                                   [@[i] EXCEPT !.completed = @ \/ ObjectiveCheck(s.objectives[i].id, s)]],
                 !.sounds = Append(@, "victory")]
  ELSE s

\* a moveThief that does not look at gameOver and gameWon
moveThiefAfterEnd(s, dx, dy) ==
  IF s.thief.picking THEN s
  ELSE LET nx == s.thief.x + dx
           ny == s.thief.y + dy
       IN IF ~isWalkable(s, nx, ny) THEN s
          ELSE LET s1 == moveLaser(s, nx, ny) IN
               IF s1.gameOver /\ ~s.gameOver THEN s1
               ELSE moveExit(moveSafes(moveLoot(moveTripwire(moveStep(s1, nx, ny), nx, ny),
                                                nx, ny),
                                       nx, ny, 1),
                             nx, ny)

\* moveThief(state, dx, dy)
moveThief(s, dx, dy) ==
  IF s.gameOver \/ s.gameWon \/ s.thief.picking THEN s
  ELSE LET nx == s.thief.x + dx
           ny == s.thief.y + dy
       IN IF ~isWalkable(s, nx, ny) THEN s
          ELSE LET s1 == moveLaser(s, nx, ny) IN
               IF s1.gameOver THEN s1
               ELSE moveExit(moveSafes(moveLoot(moveTripwire(moveStep(s1, nx, ny), nx, ny),
                                                nx, ny),
                                       nx, ny, 1),
                             nx, ny)

\* startPickLock: the first of the four neighbours (up, right, down, left)
\* holding a closed physical door
PickDirs == <<Pos(0, -1), Pos(1, 0), Pos(0, 1), Pos(-1, 0)>>

\* startPickLock(state)
startPickLock(s) ==
  IF s.gameOver \/ s.gameWon \/ s.thief.picking THEN s
  ELSE LET DoorAt(d) ==
             FirstIdx(s.doors, LAMBDA dr : dr.x = s.thief.x + d.x /\ dr.y = s.thief.y + d.y
                                           /\ dr.type = "physical" /\ ~dr.open)
           k == FirstIdx(PickDirs, LAMBDA d : DoorAt(d) # 0)
       IN IF k = 0 THEN s
          ELSE LET door == s.doors[DoorAt(PickDirs[k])] IN
               [s EXCEPT !.thief.picking = TRUE,
                         !.thief.pickTimer = s.thief.pickSpeed,
                         !.thief.pickTarget = Pos(door.x, door.y),
                         !.thief.action = "Picking lock...",
                         !.sounds = Append(@, "lock")]

\* stopPickLock(state)
stopPickLock(s) ==
  IF s.thief.picking
  THEN [s EXCEPT !.thief.picking = FALSE,
                 !.thief.pickTimer = 0,
                 !.thief.pickTarget = Null,
                 !.thief.action = "Idle"]
  ELSE s

\* a pick that opens the door on its first tick
updatePickLockOpensEarly(s, dt) ==
  IF ~s.thief.picking THEN s
  ELSE LET di == FirstIdx(s.doors, LAMBDA d : d.x = s.thief.pickTarget.x
                                              /\ d.y = s.thief.pickTarget.y)
           opened == IF di = 0 THEN s
                     ELSE [s EXCEPT !.doors[di].open = TRUE,
                                    !.map = SetTile(@, s.doors[di].x, s.doors[di].y, "."),
                                    !.thief.locksPicked = @ + 1]
       IN [opened EXCEPT !.thief.pickTimer = s.thief.pickTimer - dt,
                         !.thief.picking = FALSE,
                         !.thief.pickTarget = Null,
                         !.thief.action = "Idle",
                         !.sounds = Append(@, "doorOpen")]

\* updatePickLock(state, dt)
updatePickLock(s, dt) ==
  IF ~s.thief.picking THEN s
  ELSE LET t == s.thief.pickTimer - dt IN
       IF t > 0 THEN [s EXCEPT !.thief.pickTimer = t]
       ELSE LET di == FirstIdx(s.doors, LAMBDA d : d.x = s.thief.pickTarget.x
                                                   /\ d.y = s.thief.pickTarget.y)
                opened == IF di = 0 THEN s
                          ELSE [s EXCEPT !.doors[di].open = TRUE,
                                         !.map = SetTile(@, s.doors[di].x, s.doors[di].y, "."),
                                         !.thief.locksPicked = @ + 1]
            IN [opened EXCEPT !.thief.pickTimer = t,
                              !.thief.picking = FALSE,
                              !.thief.pickTarget = Null,
                              !.thief.action = "Idle",
                              !.sounds = Append(@, "doorOpen")]

\* thiefSprint(state)
thiefSprint(s) ==
  IF s.gameOver \/ s.gameWon THEN s
  ELSE IF s.thief.sprinting \/ s.thief.sprintCooldown > 0 THEN s
  ELSE [s EXCEPT !.thief.sprinting = TRUE,
                 !.thief.sprintTimer = s.thief.sprintDuration,
                 !.thief.action = "SPRINTING",
                 !.sounds = Append(@, "sprint")]

\* thiefThrowNoise: the landing tile after i more steps from (nx, ny)
RECURSIVE NoiseLanding(_, _, _, _, _, _)
NoiseLanding(s, nx, ny, dx, dy, i) ==
  IF i = 0 THEN Pos(nx, ny)
  ELSE LET tx == nx + dx
           ty == ny + dy
       IN IF ~InGrid(s, tx, ty) THEN Pos(nx, ny)
          ELSE IF Tile(s, tx, ty) = "#" THEN Pos(nx, ny)
          ELSE NoiseLanding(s, tx, ty, dx, dy, i - 1)

\* thiefThrowNoise(state, dx, dy)
thiefThrowNoise(s, dx, dy) ==
  IF s.gameOver \/ s.gameWon THEN s
  ELSE IF s.thief.noiseCharges <= 0 THEN s
  ELSE LET at == NoiseLanding(s, s.thief.x, s.thief.y, dx, dy, 5) IN
       [s EXCEPT !.thief.noiseCharges = @ - 1,
                 !.noisemakers = Append(@, [x |-> at.x, y |-> at.y, timer |-> 5000]),
                 !.sounds = Append(@, "noise")]

\* thiefSmokeBomb(state)
thiefSmokeBomb(s) ==
  IF s.gameOver \/ s.gameWon THEN s
  ELSE IF s.thief.smokeCharges <= 0 THEN s
  ELSE [s EXCEPT !.thief.smokeCharges = @ - 1,
                 !.smokeClouds = Append(@, [x |-> s.thief.x, y |-> s.thief.y, timer |-> 5000]),
                 !.sounds = Append(@, "smoke"),
                 !.shakeEvents = Append(@, Shake(2, 200))]

----------------------------------------------------------------------------
(* Drone intents *)

\* the drone branch of case 'input', action 'move': bounded by the grid only
droneMove(s, dx, dy) ==
  LET nx == s.drone.x + dx
      ny == s.drone.y + dy
  IN IF nx >= 0 /\ nx < s.mapWidth /\ ny >= 0 /\ ny < s.mapHeight
     THEN [s EXCEPT !.drone.x = nx, !.drone.y = ny]
     ELSE s

\* droneHack: the battery and the hack counter after one hack
hackPay(s) ==
  [s EXCEPT !.drone.battery = Max(0, s.drone.battery - s.drone.hackCost),
            !.drone.hacks = @ + 1,
            !.sounds = Append(@, "hack")]

\* droneHack(state)
droneHack(s) ==
  IF s.gameOver \/ s.gameWon \/ s.drone.battery <= 0 THEN s
  ELSE LET dx == s.drone.x
           dy == s.drone.y
           di == FirstIdx(s.doors, LAMBDA d : d.x = dx /\ d.y = dy
                                              /\ d.type = "electronic" /\ ~d.open)
           ci == FirstIdx(s.cameras, LAMBDA c : c.x = dx /\ c.y = dy /\ c.active)
           gi == FirstIdx(s.guards, LAMBDA g : g.x = dx /\ g.y = dy /\ ~g.frozen)
           pi == FirstIdx(s.alarmPanels, LAMBDA a : a.x = dx /\ a.y = dy)
       IN IF di # 0
          THEN LET h == hackPay([s EXCEPT !.doors[di].open = TRUE,
                                          !.map = SetTile(@, dx, dy, ".")])
               IN [h EXCEPT !.sounds = Append(@, "doorOpen")]
          ELSE IF ci # 0
          THEN hackPay([s EXCEPT !.cameras[ci].active = FALSE,
                                 !.map = SetTile(@, dx, dy, ".")])
          ELSE IF gi # 0
          THEN hackPay([s EXCEPT !.guards[gi].frozen = TRUE,
                                 !.guards[gi].frozenTimer = s.drone.freezeDuration,
                                 !.guards[gi].alertLevel = 0,
                                 !.guards[gi].alertTimer = 0,
                                 !.guards[gi].lastKnownThief = Null,
                                 !.guards[gi].investigateTarget = Null,
                                 !.guardsHacked = @ + 1])
          ELSE IF s.alarmActive /\ pi # 0
          THEN hackPay([s EXCEPT !.alarmActive = FALSE,
                                 !.alarmTimer = 0,
                                 !.thief.spotted = FALSE])
          ELSE s

\* droneEMP(state)
droneEMP(s) ==
  IF s.gameOver \/ s.gameWon THEN s
  ELSE IF s.drone.empCharges <= 0 THEN s
  ELSE LET CamHit(c) == c.active /\ Manhattan(c.x, c.y, s.drone.x, s.drone.y) <= 5
           GuardHit(g) == ~g.frozen /\ Manhattan(g.x, g.y, s.drone.x, s.drone.y) <= 3
           ClearTile(m, c) == IF CamHit(c) THEN SetTile(m, c.x, c.y, ".") ELSE m
           ClearAll[i \in 0..Len(s.cameras)] ==
             IF i = 0 THEN s.map ELSE ClearTile(ClearAll[i - 1], s.cameras[i])
       IN [s EXCEPT !.drone.empCharges = @ - 1,
                    !.cameras = [i \in DOMAIN @ |->
                                   IF CamHit(@[i]) THEN [@[i] EXCEPT !.active = FALSE] ELSE @[i]],
                    !.map = ClearAll[Len(s.cameras)],
                    !.guards = [i \in DOMAIN @ |->
                                  IF GuardHit(@[i])
                                  THEN [@[i] EXCEPT !.frozen = TRUE, !.frozenTimer = 3000,
                                                    !.alertLevel = 0]
                                  ELSE @[i]],
                    !.sounds = Append(@, "emp"),
                    !.shakeEvents = Append(@, Shake(5, 400))]

\* droneDecoy(state)
droneDecoy(s) ==
  IF s.gameOver \/ s.gameWon THEN s
  ELSE IF s.drone.decoyCharges <= 0 THEN s
  ELSE [s EXCEPT !.drone.decoyCharges = @ - 1,
                 !.decoys = Append(@, [x |-> s.drone.x, y |-> s.drone.y, timer |-> 6000]),
                 !.sounds = Append(@, "decoy")]

\* dronePing(state, x, y)
dronePing(s, x, y) ==
  IF s.gameOver \/ s.gameWon THEN s
  ELSE [s EXCEPT !.drone.ping = [x |-> x, y |-> y, timer |-> 5000],
                 !.sounds = Append(@, "ping")]

----------------------------------------------------------------------------
(* The steps of one tick *)

\* updateDroneCharge with a recharge that is not capped at maxBattery
updateDroneChargeUncapped(s, dt) ==
  LET pad == FirstIdx(s.chargingPads, LAMBDA p : p.x = s.drone.x /\ p.y = s.drone.y) IN
  IF pad # 0 /\ s.drone.battery < s.drone.maxBattery
  THEN LET ct == s.drone.chargeTimer + dt IN
       IF ct >= s.drone.chargeSpeed
       THEN [s EXCEPT !.drone.charging = TRUE,
                      !.drone.battery = s.drone.battery + 25,
                      !.drone.chargeTimer = 0,
                      !.sounds = Append(@, "charge")]
       ELSE [s EXCEPT !.drone.charging = TRUE, !.drone.chargeTimer = ct]
  ELSE [s EXCEPT !.drone.charging = FALSE, !.drone.chargeTimer = 0]

\* updateDroneCharge(state, dt)
updateDroneCharge(s, dt) ==
  LET pad == FirstIdx(s.chargingPads, LAMBDA p : p.x = s.drone.x /\ p.y = s.drone.y) IN
  IF pad # 0 /\ s.drone.battery < s.drone.maxBattery
  THEN LET ct == s.drone.chargeTimer + dt IN
       IF ct >= s.drone.chargeSpeed
       THEN [s EXCEPT !.drone.charging = TRUE,
                      !.drone.battery = Min(s.drone.maxBattery, s.drone.battery + 25),
                      !.drone.chargeTimer = 0,
                      !.sounds = Append(@, "charge")]
       ELSE [s EXCEPT !.drone.charging = TRUE, !.drone.chargeTimer = ct]
  ELSE [s EXCEPT !.drone.charging = FALSE, !.drone.chargeTimer = 0]

\* updateLasers: the body of the loop for laser i
laserStep(s, i, dt) ==
  LET l == s.lasers[i]
      t == l.timer + dt
      toggled == t >= l.period
      active == IF toggled THEN ~l.active ELSE l.active
      s1 == [s EXCEPT !.lasers[i].timer = IF toggled THEN 0 ELSE t,
                      !.lasers[i].active = active,
                      !.sounds = IF toggled /\ active THEN Append(@, "laser") ELSE @]
  IN IF active /\ l.x = s1.thief.x /\ l.y = s1.thief.y /\ s1.thief.invulnTimer <= 0
     THEN LET hit == [s1 EXCEPT !.thief.hp = @ - 1,
                                !.thief.invulnTimer = 1500,
                                !.sounds = Append(@, "hit"),
                                !.shakeEvents = Append(@, Shake(3, 300))]
          IN IF hit.thief.hp <= 0
             THEN [hit EXCEPT !.gameOver = TRUE,
                              !.sounds = Append(@, "gameOver"),
                              !.shakeEvents = Append(@, Shake(8, 500))]
             ELSE hit
     ELSE s1

\* updateLasers: the loop over state.lasers, from index i
RECURSIVE lasersFrom(_, _, _)
lasersFrom(s, i, dt) ==
  IF i > Len(s.lasers) THEN s ELSE lasersFrom(laserStep(s, i, dt), i + 1, dt)

\* updateLasers(state, dt)
updateLasers(s, dt) == lasersFrom(s, 1, dt)

\* updateEffects: one timed list with its timers run down and the expired
\* entries spliced out
Expire(list, dt) ==
  Filter([i \in DOMAIN list |-> [list[i] EXCEPT !.timer = @ - dt]],
         [i \in DOMAIN list |-> list[i].timer - dt > 0])

\* updateEffects(state, dt)
updateEffects(s, dt) ==
  LET s1 == [s EXCEPT !.noisemakers = Expire(@, dt),
                      !.smokeClouds = Expire(@, dt),
                      !.decoys = Expire(@, dt),
                      !.drone.ping = IF @ = NoPing THEN @
                                     ELSE IF @.timer - dt <= 0 THEN NoPing
                                     ELSE [@ EXCEPT !.timer = @ - dt]]
      s2 == IF s1.thief.sprinting
            THEN LET t == s1.thief.sprintTimer - dt IN
                 IF t <= 0
                 THEN [s1 EXCEPT !.thief.sprintTimer = t,
                                 !.thief.sprinting = FALSE,
                                 !.thief.sprintCooldown = s1.thief.sprintCooldownMax,
                                 !.thief.action = "Idle"]
                 ELSE [s1 EXCEPT !.thief.sprintTimer = t]
            ELSE s1
  IN IF s2.thief.sprintCooldown > 0
     THEN [s2 EXCEPT !.thief.sprintCooldown = @ - dt]
     ELSE s2

\* a faulty countdown that takes two hit points at expiry (the fault C8
\* excludes)
updateAlarmTwice(s, dt) ==
  IF ~s.alarmActive THEN s
  ELSE LET t == s.alarmTimer - dt IN
       IF t > 0 THEN [s EXCEPT !.alarmTimer = t]
       ELSE [s EXCEPT !.thief.hp = @ - 2, !.alarmActive = FALSE, !.alarmTimer = 0]

\* updateAlarm(state, dt)
updateAlarm(s, dt) ==
  IF ~s.alarmActive
  THEN IF s.thief.spotted
       THEN [s EXCEPT !.thief.spotted = FALSE,
                      !.thief.action = IF s.thief.sprinting THEN "SPRINTING" ELSE "Idle"]
       ELSE s
  ELSE LET t == s.alarmTimer - dt IN
       IF t > 0 THEN [s EXCEPT !.alarmTimer = t]
       ELSE LET hit == [s EXCEPT !.thief.hp = @ - 1,
                                 !.sounds = Append(@, "hit"),
                                 !.shakeEvents = Append(@, Shake(5, 300)),
                                 !.alarmActive = FALSE,
                                 !.alarmTimer = 0]
            IN IF hit.thief.hp <= 0
               THEN [hit EXCEPT !.gameOver = TRUE,
                                !.sounds = Append(@, "gameOver"),
                                !.shakeEvents = Append(@, Shake(8, 500))]
               ELSE [hit EXCEPT !.thief.spotted = FALSE, !.thief.action = "Idle"]

\* updateInvuln(state, dt)
updateInvuln(s, dt) ==
  IF s.thief.invulnTimer > 0 THEN [s EXCEPT !.thief.invulnTimer = @ - dt] ELSE s

----------------------------------------------------------------------------
(* Guard AI and cameras *)

\* dirVecs[dir]: up, right, down, left
DirVec(dir) == <<Pos(0, -1), Pos(1, 0), Pos(0, 1), Pos(-1, 0)>>[dir + 1]

\* ten times the effective movement period of a guard: guard.speed,
\* Math.max(200, guard.speed * 0.8) or Math.max(150, guard.speed * 0.5)
effectiveSpeed10(g) ==
  IF g.alertLevel = 2 THEN Max(1500, g.speed * 5)
  ELSE IF g.alertLevel = 1 THEN Max(2000, g.speed * 8)
  ELSE g.speed * 10

\* a faulty attraction in which a noise-maker alerts the guard outright (the
\* fault C7 excludes)
guardAttractLoud(s, g) ==
  LET ni == FirstIdx(s.noisemakers, LAMBDA n : Manhattan(n.x, n.y, g.x, g.y) <= 8)
  IN IF ni # 0
     THEN [g EXCEPT !.investigateTarget = Pos(s.noisemakers[ni].x, s.noisemakers[ni].y),
                    !.alertLevel = 2,
                    !.alertTimer = 8000]
     ELSE g

\* updateGuards: attraction of guard g by the first noise-maker in range,
\* otherwise by the first decoy in range
guardAttract(s, g) ==
  LET ni == FirstIdx(s.noisemakers, LAMBDA n : Manhattan(n.x, n.y, g.x, g.y) <= 8)
      di == FirstIdx(s.decoys, LAMBDA d : Manhattan(d.x, d.y, g.x, g.y) <= 6)
  IN IF ni # 0
     THEN [g EXCEPT !.investigateTarget = Pos(s.noisemakers[ni].x, s.noisemakers[ni].y),
                    !.alertLevel = 1,
                    !.alertTimer = 8000]
     ELSE IF di # 0
     THEN [g EXCEPT !.investigateTarget = Pos(s.decoys[di].x, s.decoys[di].y),
                    !.alertLevel = 2,
                    !.alertTimer = 6000]
     ELSE g

\* updateGuards: the tile guard g walks toward
guardTarget(g) ==
  IF g.alertLevel = 2 /\ g.lastKnownThief # Null THEN g.lastKnownThief
  ELSE IF g.investigateTarget # Null THEN g.investigateTarget
  ELSE g.route[g.routeIdx + 1]

\* updateGuards: one step toward the target, waypoint cycling, and the
\* clearing of a reached investigate-target or last-known position
guardMove(s, g) ==
  LET target == guardTarget(g)
      alongX == Abs(target.x - g.x) > Abs(target.y - g.y)
      gdx == IF alongX THEN (IF target.x > g.x THEN 1 ELSE -1) ELSE 0
      gdy == IF alongX THEN 0 ELSE (IF target.y > g.y THEN 1 ELSE -1)
      nx == g.x + gdx
      ny == g.y + gdy
      moved == (g.x # target.x \/ g.y # target.y) /\ isWalkable(s, nx, ny)
      g1 == IF moved
            THEN [g EXCEPT !.x = nx, !.y = ny,
                           !.dir = IF gdx = 1 THEN 1 ELSE IF gdx = -1 THEN 3
                                   ELSE IF gdy = -1 THEN 0 ELSE 2]
            ELSE g
      g2 == IF g1.alertLevel = 0 /\ (~moved \/ (g1.x = target.x /\ g1.y = target.y))
            THEN [g1 EXCEPT !.routeIdx = (@ + 1) % Len(g1.route)]
            ELSE g1
      g3 == IF g2.investigateTarget # Null /\ g2.x = g2.investigateTarget.x
               /\ g2.y = g2.investigateTarget.y
            THEN [g2 EXCEPT !.investigateTarget = Null]
            ELSE g2
  IN IF g3.alertLevel = 2 /\ g3.lastKnownThief # Null /\ g3.x = g3.lastKnownThief.x
        /\ g3.y = g3.lastKnownThief.y
     THEN [g3 EXCEPT !.lastKnownThief = Null]
     ELSE g3

\* updateGuards, "Alert timer decay"
guardDecay(g, dt) ==
  IF g.alertLevel > 0
  THEN IF g.alertTimer - dt <= 0
       THEN [g EXCEPT !.alertLevel = 0, !.alertTimer = 0, !.lastKnownThief = Null,
                      !.investigateTarget = Null]
       ELSE [g EXCEPT !.alertTimer = @ - dt]
  ELSE g

\* a vision ray from (x, y) along dv of the given range reaches the thief:
\* the loop stops at the first blocked tile
RaySees(s, x, y, dv, range) ==
  \E i \in 1..range :
    /\ x + dv.x * i = s.thief.x /\ y + dv.y * i = s.thief.y
    /\ \A j \in 1..i : ~isBlockedForVision(s, x + dv.x * j, y + dv.y * j)

\* updateGuards, "Vision check": canSeeThief of guard g
canSeeThief(s, g) ==
  LET dv == DirVec(g.dir)
      visionRange == IF g.alertLevel >= 1 THEN 5 ELSE 3
      perps == IF dv.x = 0 THEN {Pos(1, 0), Pos(-1, 0)} ELSE {Pos(0, 1), Pos(0, -1)}
  IN \/ RaySees(s, g.x, g.y, dv, visionRange)
     \/ /\ g.alertLevel >= 1
        /\ \E p \in perps : /\ g.x + p.x = s.thief.x /\ g.y + p.y = s.thief.y
                            /\ ~isBlockedForVision(s, g.x + p.x, g.y + p.y)
     \/ (g.x = s.thief.x /\ g.y = s.thief.y)

\* a faulty arming that ignores state.alarmActive (the fault C9 excludes)
armAlarmAgain(s) ==
  [s EXCEPT !.alarmActive = TRUE,
            !.alarmTimer = 10000,
            !.thief.spotted = TRUE,
            !.thief.action = "SPOTTED!",
            !.alertTriggered = TRUE,
            !.sounds = Append(@, "alarm"),
            !.shakeEvents = Append(@, Shake(4, 400))]

\* the arming of the global alarm by a detection
armAlarm(s) ==
  IF ~s.alarmActive
  THEN [s EXCEPT !.alarmActive = TRUE,
                 !.alarmTimer = 10000,
                 !.thief.spotted = TRUE,
                 !.thief.action = "SPOTTED!",
                 !.alertTriggered = TRUE,
                 !.sounds = Append(@, "alarm"),
                 !.shakeEvents = Append(@, Shake(4, 400))]
  ELSE s

\* updateGuards: perception of guard i (already moved and decayed to g):
\* sprint suspicion, detection with alarm arming, contact damage
guardPerceive(s, i, g) ==
  LET sees == canSeeThief(s, g)
      thiefDist == Manhattan(g.x, g.y, s.thief.x, s.thief.y)
      g1 == IF ~sees /\ thiefDist <= 2 /\ g.alertLevel = 0 /\ s.thief.sprinting
            THEN [g EXCEPT !.alertLevel = 1, !.alertTimer = 5000,
                           !.investigateTarget = Pos(s.thief.x, s.thief.y)]
            ELSE g
      g2 == IF sees
            THEN [g1 EXCEPT !.alertLevel = 2, !.alertTimer = 10000,
                            !.lastKnownThief = Pos(s.thief.x, s.thief.y)]
            ELSE g1
      s1 == [s EXCEPT !.guards[i] = g2]
      s2 == IF sees THEN armAlarm(s1) ELSE s1
  IN IF g2.x = s2.thief.x /\ g2.y = s2.thief.y /\ s2.thief.invulnTimer <= 0
     THEN LET hit == [s2 EXCEPT !.thief.hp = @ - 1,
                                !.thief.invulnTimer = 1500,
                                !.sounds = Append(@, "hit"),
                                !.shakeEvents = Append(@, Shake(5, 300))]
          IN IF hit.thief.hp <= 0
             THEN [hit EXCEPT !.gameOver = TRUE,
                              !.sounds = Append(@, "gameOver"),
                              !.shakeEvents = Append(@, Shake(8, 500))]
             ELSE hit
     ELSE s2

\* a guard loop whose frozen guards thaw one tick early
guardStepThawsEarly(s, i, dt) ==
  LET g == s.guards[i] IN
  IF g.frozen
  THEN IF g.frozenTimer - 2 * dt <= 0
       THEN [s EXCEPT !.guards[i].frozen = FALSE, !.guards[i].frozenTimer = 0]
       ELSE [s EXCEPT !.guards[i].frozenTimer = @ - dt]
  ELSE LET mt == g.moveTimer + dt IN
       IF mt * 10 < effectiveSpeed10(g)
       THEN [s EXCEPT !.guards[i].moveTimer = mt]
       ELSE guardPerceive(s, i,
              guardDecay(guardMove(s, guardAttract(s, [g EXCEPT !.moveTimer = 0])), dt))

\* updateGuards: the body of the loop for guard i
guardStep(s, i, dt) ==
  LET g == s.guards[i] IN
  IF g.frozen
  THEN IF g.frozenTimer - dt <= 0
       THEN [s EXCEPT !.guards[i].frozen = FALSE, !.guards[i].frozenTimer = 0]
       ELSE [s EXCEPT !.guards[i].frozenTimer = @ - dt]
  ELSE LET mt == g.moveTimer + dt IN
       IF mt * 10 < effectiveSpeed10(g)
       THEN [s EXCEPT !.guards[i].moveTimer = mt]
       ELSE guardPerceive(s, i,
              guardDecay(guardMove(s, guardAttract(s, [g EXCEPT !.moveTimer = 0])), dt))

\* updateGuards: the loop over state.guards, from index i
RECURSIVE guardsFrom(_, _, _)
guardsFrom(s, i, dt) ==
  IF i > Len(s.guards) THEN s ELSE guardsFrom(guardStep(s, i, dt), i + 1, dt)

\* updateGuards, "Camera checks": the body of the loop for camera i
cameraStep(s, i, dt) ==
  LET c == s.cameras[i] IN
  IF ~c.active THEN s
  ELSE LET rt == c.rotTimer + dt
           c1 == IF rt >= 4000
                 THEN [c EXCEPT !.rotTimer = 0, !.dir = (@ + 1) % 4]
                 ELSE [c EXCEPT !.rotTimer = rt]
           s1 == [s EXCEPT !.cameras[i] = c1]
       IN IF RaySees(s1, c1.x, c1.y, DirVec(c1.dir), 3) THEN armAlarm(s1) ELSE s1

\* updateGuards: the loop over state.cameras, from index i
RECURSIVE camerasFrom(_, _, _)
camerasFrom(s, i, dt) ==
  IF i > Len(s.cameras) THEN s ELSE camerasFrom(cameraStep(s, i, dt), i + 1, dt)

\* updateGuards(state, dt)
updateGuards(s, dt) == camerasFrom(guardsFrom(s, 1, dt), 1, dt)

----------------------------------------------------------------------------
(* Room game loop *)

\* tickRoom: the periodic alarm sound, an edge detector on state.timer
alarmSiren(s, dt) ==
  IF s.alarmActive /\ (s.timer \div 500) % 2 = 0 /\ ((s.timer - dt) \div 500) % 2 # 0
  THEN [s EXCEPT !.sounds = Append(@, "alarm")]
  ELSE s

\* tickRoom: the state after the first n update steps of one tick,
\* 0 = elapsed time, 1 = lock-pick, 2 = guards and cameras, 3 = alarm,
\* 4 = drone charge, 5 = invulnerability, 6 = lasers, 7 = effects, 8 = siren
RECURSIVE tickSteps(_, _, _)
tickSteps(s, dt, n) ==
  IF n = 0 THEN [s EXCEPT !.timer = @ + dt]
  ELSE LET p == tickSteps(s, dt, n - 1) IN
       CASE n = 1 -> updatePickLock(p, dt)
         [] n = 2 -> updateGuards(p, dt)
         [] n = 3 -> updateAlarm(p, dt)
         [] n = 4 -> updateDroneCharge(p, dt)
         [] n = 5 -> updateInvuln(p, dt)
         [] n = 6 -> updateLasers(p, dt)
         [] n = 7 -> updateEffects(p, dt)
         [] n = 8 -> alarmSiren(p, dt)

\* tickRoom with two simulation advances in one call
tickRoomTwice(s, dt) ==
  IF s.gameOver \/ s.gameWon THEN s
  ELSE LET once == tickSteps(s, dt, 8)
       IN IF once.gameOver \/ once.gameWon THEN once ELSE tickSteps(once, dt, 8)

\* tickRoom(room, dt)
tickRoom(s, dt) ==
  IF s.gameOver \/ s.gameWon THEN s ELSE tickSteps(s, dt, 8)

\* the clearing of the one-shot events with the shake events left queued
clearEventsKeepsShake(s) == [s EXCEPT !.sounds = <<>>]

\* broadcastState: "Clear one-shot events"
clearEvents(s) == [s EXCEPT !.sounds = <<>>, !.shakeEvents = <<>>]

----------------------------------------------------------------------------
(* Level layouts: results of generateLevel, cut down to a few tiles *)

\* generateLevel: a guard placed on the first waypoint of its route
NewGuard(level, route) ==
  [x |-> route[1].x, y |-> route[1].y, route |-> route, routeIdx |-> 0, dir |-> 0,
   frozen |-> FALSE, frozenTimer |-> 0,
   speed |-> Max(250, 500 - level * 50), moveTimer |-> 0,
   alertLevel |-> 0, alertTimer |-> 0,
   lastKnownThief |-> Null, investigateTarget |-> Null]

NewDoor(x, y, type) == [x |-> x, y |-> y, type |-> type, open |-> FALSE]

NewLoot(x, y, primary) == [x |-> x, y |-> y, primary |-> primary, collected |-> FALSE]

NewCamera(x, y, dir) == [x |-> x, y |-> y, active |-> TRUE, dir |-> dir, rotTimer |-> 0]

NewLaser(x, y, period, timer) ==
  [x |-> x, y |-> y, active |-> TRUE, period |-> period, timer |-> timer, horizontal |-> TRUE]

NewTripwire(x, y) == [x |-> x, y |-> y, triggered |-> FALSE]

NewSafe(x, y) == [x |-> x, y |-> y, open |-> FALSE, lootValue |-> 1500]

\* a level-3 floor: three primary and one bonus loot, a tripwire before the
\* exit, a safe next to the exit
VaultLevel ==
  [width |-> 4, height |-> 2,
   map |-> << <<".", "*", "*", "S">>,
              <<"$", "*", "T", ">">> >>,
   thiefStart |-> Pos(0, 0), exitPos |-> Pos(3, 1),
   guards |-> <<>>,
   doors |-> <<>>,
   loot |-> << NewLoot(1, 0, TRUE), NewLoot(2, 0, TRUE), NewLoot(1, 1, TRUE),
               NewLoot(0, 1, FALSE) >>,
   cameras |-> <<>>,
   chargingPads |-> <<>>,
   alarmPanels |-> <<>>,
   lasers |-> <<>>,
   tripwires |-> << NewTripwire(2, 1) >>,
   safes |-> << NewSafe(3, 0) >>]

\* a level-5 floor: a guard below a corridor, a camera, a tripwire
PatrolLevel ==
  [width |-> 5, height |-> 2,
   map |-> << <<".", ".", ".", ".", "*">>,
              <<"#", "T", ".", "C", ">">> >>,
   thiefStart |-> Pos(0, 0), exitPos |-> Pos(4, 1),
   guards |-> << NewGuard(5, <<Pos(2, 1), Pos(2, 0), Pos(0, 0)>>) >>,
   doors |-> <<>>,
   loot |-> << NewLoot(4, 0, TRUE) >>,
   cameras |-> << NewCamera(3, 1, 0) >>,
   chargingPads |-> <<>>,
   alarmPanels |-> <<>>,
   lasers |-> <<>>,
   tripwires |-> << NewTripwire(1, 1) >>,
   safes |-> <<>>]

\* a level-2 floor: one corridor from the start over a tripwire, the loot,
\* the alarm panel (under the drone) and a laser to the exit
AlarmLevel ==
  [width |-> 6, height |-> 1,
   map |-> << <<".", "T", "*", "A", "Z", ">">> >>,
   thiefStart |-> Pos(0, 0), exitPos |-> Pos(5, 0),
   guards |-> <<>>,
   doors |-> <<>>,
   loot |-> << NewLoot(2, 0, TRUE) >>,
   cameras |-> <<>>,
   chargingPads |-> <<>>,
   alarmPanels |-> << Pos(3, 0) >>,
   lasers |-> << NewLaser(4, 0, 4999, 0) >>,
   tripwires |-> << NewTripwire(1, 0) >>,
   safes |-> <<>>]

\* a level-2 floor: four cameras and three electronic doors for the drone
HackLevel ==
  [width |-> 5, height |-> 2,
   map |-> << <<"C", "C", "C", "C", "*">>,
              <<".", "D", "D", "D", ">">> >>,
   thiefStart |-> Pos(0, 1), exitPos |-> Pos(4, 1),
   guards |-> <<>>,
   doors |-> << NewDoor(1, 1, "electronic"), NewDoor(2, 1, "electronic"),
                NewDoor(3, 1, "electronic") >>,
   loot |-> << NewLoot(4, 0, TRUE) >>,
   cameras |-> << NewCamera(0, 0, 1), NewCamera(1, 0, 1), NewCamera(2, 0, 1),
                  NewCamera(3, 0, 1) >>,
   chargingPads |-> <<>>,
   alarmPanels |-> <<>>,
   lasers |-> <<>>, tripwires |-> <<>>, safes |-> <<>>]

\* a level-1 floor: a guard patrolling between the tile beside the exit and
\* the alarm panel under the drone
WardLevel ==
  [width |-> 5, height |-> 1,
   map |-> << <<".", "*", "A", ".", ">">> >>,
   thiefStart |-> Pos(0, 0), exitPos |-> Pos(4, 0),
   guards |-> << NewGuard(1, <<Pos(3, 0), Pos(2, 0)>>) >>,
   doors |-> <<>>,
   loot |-> << NewLoot(1, 0, TRUE) >>,
   cameras |-> <<>>,
   chargingPads |-> <<>>,
   alarmPanels |-> << Pos(2, 0) >>,
   lasers |-> <<>>, tripwires |-> <<>>, safes |-> <<>>]

\* a level-1 floor: a physical door beside the start, the loot under the
\* drone, an electronic door before the exit
DoorLevel ==
  [width |-> 5, height |-> 1,
   map |-> << <<".", "L", "*", "D", ">">> >>,
   thiefStart |-> Pos(0, 0), exitPos |-> Pos(4, 0),
   guards |-> <<>>,
   doors |-> << NewDoor(3, 0, "electronic"), NewDoor(1, 0, "physical") >>,
   loot |-> << NewLoot(2, 0, TRUE) >>,
   cameras |-> <<>>,
   chargingPads |-> <<>>,
   alarmPanels |-> <<>>,
   lasers |-> <<>>, tripwires |-> <<>>, safes |-> <<>>]

\* a level-1 floor: the start, the loot and the exit in one corridor
LobbyLevel ==
  [width |-> 3, height |-> 1,
   map |-> << <<".", "*", ">">> >>,
   thiefStart |-> Pos(0, 0), exitPos |-> Pos(2, 0),
   guards |-> <<>>,
   doors |-> <<>>,
   loot |-> << NewLoot(1, 0, TRUE) >>,
   cameras |-> <<>>,
   chargingPads |-> <<>>,
   alarmPanels |-> <<>>,
   lasers |-> <<>>, tripwires |-> <<>>, safes |-> <<>>]

\* a level-4 floor: a laser between the start and the loot
LaserLevel ==
  [width |-> 4, height |-> 1,
   map |-> << <<".", "Z", "*", ">">> >>,
   thiefStart |-> Pos(0, 0), exitPos |-> Pos(3, 0),
   guards |-> <<>>,
   doors |-> <<>>,
   loot |-> << NewLoot(2, 0, TRUE) >>,
   cameras |-> <<>>,
   chargingPads |-> <<>>,
   alarmPanels |-> <<>>,
   lasers |-> << NewLaser(1, 0, 4999, 0) >>,
   tripwires |-> <<>>, safes |-> <<>>]

\* a level-4 floor: the thief's corridor to the loot and the exit, and behind
\* a wall an electronic door and a charging pad for the drone
BatteryLevel ==
  [width |-> 6, height |-> 1,
   map |-> << <<".", "*", ">", "#", "D", "^">> >>,
   thiefStart |-> Pos(0, 0), exitPos |-> Pos(2, 0),
   guards |-> <<>>,
   doors |-> << NewDoor(4, 0, "electronic") >>,
   loot |-> << NewLoot(1, 0, TRUE) >>,
   cameras |-> <<>>,
   chargingPads |-> << Pos(5, 0) >>,
   alarmPanels |-> <<>>,
   lasers |-> <<>>, tripwires |-> <<>>, safes |-> <<>>]

----------------------------------------------------------------------------
(* generateLevel, on a grid cut down from 40 x 30 *)

\* a room of the generator
NewRoom(x, y, w, h) == [x |-> x, y |-> y, w |-> w, h |-> h]

\* rw = 4 + floor(random * 5) and rh = 3 + floor(random * 4): the draws taken
RoomWidths == {4}
RoomHeights == {3}

\* rx = 1 + floor(random * (W - rw - 2)), ry = 1 + floor(random * (H - rh - 2))
RoomDraws ==
  UNION {{NewRoom(x, y, w, h) : x \in 1..(GenW - w - 2), y \in 1..(GenH - h - 2)} :
           w \in RoomWidths, h \in RoomHeights}

\* the overlap test of the placement loop: rooms keep one tile of wall
\* between them
RoomsOverlap(a, r) ==
  /\ a.x - 1 < r.x + r.w /\ a.x + a.w + 1 > r.x
  /\ a.y - 1 < r.y + r.h /\ a.y + a.h + 1 > r.y

\* the lists rooms_ the placement loop can end with: the first draw is always
\* accepted, a later one when it overlaps no room placed before; the loop ends
\* at the target count or when its 400 attempts are used up
RoomLists ==
  {rs \in UNION {[1..n -> RoomDraws] : n \in 1..MaxRooms} :
     \A i, j \in DOMAIN rs : i < j => ~RoomsOverlap(rs[j], rs[i])}

\* tileInRoom(tile, room)
tileInRoom(tile, r) ==
  tile.x >= r.x /\ tile.x < r.x + r.w /\ tile.y >= r.y /\ tile.y < r.y + r.h

\* the grid of walls with the floor of the rooms carved out
RoomMap(rooms) ==
  [yy \in 1..GenH |->
     [xx \in 1..GenW |->
        IF \E i \in DOMAIN rooms : tileInRoom(Pos(xx - 1, yy - 1), rooms[i])
        THEN "." ELSE "#"]]

\* the centre tile the corridors run between
Centre(r) == Pos(r.x + r.w \div 2, r.y + r.h \div 2)

\* v lies on the way from a to b, b excluded
OnRun(v, a, b) == IF a < b THEN a <= v /\ v < b ELSE b < v /\ v <= a

\* the L-shaped corridor from the centre of r1 to the centre of r2: along the
\* row of r1 first, then along the column of r2; only wall tiles are written
CarveCorridor(map, r1, r2) ==
  LET c1 == Centre(r1)
      c2 == Centre(r2)
  IN [yy \in 1..GenH |->
        [xx \in 1..GenW |->
           IF \/ yy - 1 = c1.y /\ OnRun(xx - 1, c1.x, c2.x)
              \/ xx - 1 = c2.x /\ OnRun(yy - 1, c1.y, c2.y)
           THEN (IF map[yy][xx] = "#" THEN "." ELSE map[yy][xx])
           ELSE map[yy][xx]]]

\* "Connect rooms": the pair (connected, unconnected) with the least distance
\* between centres, the first such pair in loop order, is joined by a
\* corridor until no room is unconnected
RECURSIVE ConnectRooms(_, _, _, _)
ConnectRooms(map, rooms, connected, unconnected) ==
  IF unconnected = <<>> THEN map
  ELSE LET Dist(i, j) ==
             Manhattan(Centre(rooms[connected[i]]).x, Centre(rooms[connected[i]]).y,
                       Centre(rooms[unconnected[j]]).x, Centre(rooms[unconnected[j]]).y)
           pairs == (DOMAIN connected) \X (DOMAIN unconnected)
           best == CHOOSE q \in pairs :
                     \A o \in pairs :
                       \/ Dist(q[1], q[2]) < Dist(o[1], o[2])
                       \/ /\ Dist(q[1], q[2]) = Dist(o[1], o[2])
                          /\ \/ q[1] < o[1]
                             \/ q[1] = o[1] /\ q[2] <= o[2]
           bestC == connected[best[1]]
           bestU == unconnected[best[2]]
       IN ConnectRooms(CarveCorridor(map, rooms[bestC], rooms[bestU]), rooms,
                       Append(connected, bestU),
                       Filter(unconnected, [j \in DOMAIN unconnected |-> j # best[2]]))

\* the tiles of the grid in the order of the scans: row by row
Tiles == [k \in 1..(GenW * GenH) |-> Pos((k - 1) % GenW, (k - 1) \div GenW)]

At(map, p) == map[p.y + 1][p.x + 1]

\* "Place doors": a floor tile between two walls, with floor on both other
\* sides
IsDoorway(map, p) ==
  /\ p.x >= 1 /\ p.x < GenW - 1 /\ p.y >= 1 /\ p.y < GenH - 1
  /\ At(map, p) = "."
  /\ \/ /\ At(map, Pos(p.x - 1, p.y)) = "#" /\ At(map, Pos(p.x + 1, p.y)) = "#"
        /\ At(map, Pos(p.x, p.y - 1)) = "." /\ At(map, Pos(p.x, p.y + 1)) = "."
     \/ /\ At(map, Pos(p.x, p.y - 1)) = "#" /\ At(map, Pos(p.x, p.y + 1)) = "#"
        /\ At(map, Pos(p.x - 1, p.y)) = "." /\ At(map, Pos(p.x + 1, p.y)) = "."

DoorCandidates(map) == Filter(Tiles, [k \in DOMAIN Tiles |-> IsDoorway(map, Tiles[k])])

\* array.slice(0, n)
Slice(seq, n) == SubSeq(seq, 1, Min(n, Len(seq)))

\* the doors placed when every doorway draws `door`: "none" (random >= 0.35),
\* "electronic" or "physical"; the shuffle leaves the scan order
PlacedDoors(map, level, door) ==
  LET cand == DoorCandidates(map)
  IN IF door = "electronic"
     THEN [i \in 1..Len(Slice(cand, 3 + level)) |-> NewDoor(cand[i].x, cand[i].y, door)]
     ELSE IF door = "physical"
     THEN [i \in 1..Len(Slice(cand, 2 + level)) |-> NewDoor(cand[i].x, cand[i].y, door)]
     ELSE <<>>

RECURSIVE WithDoors(_, _)
WithDoors(map, doors) ==
  IF doors = <<>> THEN map
  ELSE WithDoors(SetTile(map, doors[1].x, doors[1].y,
                         IF doors[1].type = "electronic" THEN "D" ELSE "L"),
                 Tail(doors))

\* getFloorTiles()
getFloorTiles(map) == Filter(Tiles, [k \in DOMAIN Tiles |-> At(map, Tiles[k]) = "."])

\* tiles.splice(idx, 1)
RemoveAt(seq, i) == SubSeq(seq, 1, i - 1) \o SubSeq(seq, i + 1, Len(seq))

\* the last floor tile inside the room, 0 when the room has none left
LastIdxIn(floors, r) ==
  IF \E i \in DOMAIN floors : tileInRoom(floors[i], r)
  THEN CHOOSE i \in DOMAIN floors :
         tileInRoom(floors[i], r) /\ \A j \in (i + 1)..Len(floors) : ~tileInRoom(floors[j], r)
  ELSE 0

\* pickAndRemove: idx = floor(random * tiles.length) for a random of 0
\* ("first") or just below 1 ("last")
PickIdx(draw, floors) == IF draw = "first" THEN 1 ELSE Len(floors)

\* n times the tile t
Rep(n, t) == [i \in 1..n |-> t]

\* the tiles placed after start and exit, in the order of their loops
Kinds(level, bonusCount) ==
  Rep(3, "*") \o Rep(bonusCount, "$") \o Rep(2, "^")
  \o Rep(1 + level \div 2, "A") \o Rep(2 + level, "C")
  \o (IF level >= 2 THEN Rep(1 + level, "Z") \o Rep(Min(level, 3), "T") ELSE <<>>)
  \o (IF level >= 3 THEN Rep(Min(level - 1, 3), "S") ELSE <<>>)

\* the draw of the j-th pickAndRemove: the first d.front picks take the first
\* floor tile left and the others the last, the safes take d.safeDraw
DrawOf(d, j, kind) ==
  IF kind = "S" THEN d.safeDraw
  ELSE IF j <= d.front THEN "first" ELSE "last"

\* the loops over pickAndRemove; a pick from an empty list places nothing
RECURSIVE PlaceAll(_, _, _, _, _)
PlaceAll(map, floors, kinds, j, d) ==
  IF kinds = <<>> THEN [map |-> map, placed |-> <<>>]
  ELSE IF floors = <<>> THEN PlaceAll(map, floors, Tail(kinds), j + 1, d)
  ELSE LET idx == PickIdx(DrawOf(d, j, kinds[1]), floors)
           p == floors[idx]
           rest == PlaceAll(SetTile(map, p.x, p.y, kinds[1]), RemoveAt(floors, idx),
                            Tail(kinds), j + 1, d)
       IN [map |-> rest.map,
           placed |-> << [kind |-> kinds[1], x |-> p.x, y |-> p.y] >> \o rest.placed]

\* the placed tiles of one kind, in order
Placed(placed, kind) == Filter(placed, [k \in DOMAIN placed |-> placed[k].kind = kind])

\* "Guards": guard i patrols room (i + 1) % rooms.length; every random of its
\* route is 0
GenGuards(level, rooms) ==
  [i \in 1..(3 + Min(level, 3)) |->
     LET r == rooms[(i % Len(rooms)) + 1]
     IN NewGuard(level, Rep(3, Pos(r.x + 1, r.y + 1)))]

\* the random draws of one call of generateLevel
Draws ==
  [rooms : RoomLists, door : {"none", "electronic", "physical"},
   bonusCount : {1, 2}, front : 0..MaxFront, safeDraw : {"first", "last"}]

\* the level object returned: the placed tiles of each kind become the
\* entity lists
GenLevel(level, rooms, doors, thiefPos, exitPos, all) ==
  LET Of(kind) == Placed(all.placed, kind)
  IN [width |-> GenW, height |-> GenH, map |-> all.map,
      thiefStart |-> thiefPos, exitPos |-> exitPos,
      guards |-> GenGuards(level, rooms),
      doors |-> doors,
      loot |-> [i \in DOMAIN Of("*") |-> NewLoot(Of("*")[i].x, Of("*")[i].y, TRUE)]
               \o [i \in DOMAIN Of("$") |-> NewLoot(Of("$")[i].x, Of("$")[i].y, FALSE)],
      chargingPads |-> [i \in DOMAIN Of("^") |-> Pos(Of("^")[i].x, Of("^")[i].y)],
      alarmPanels |-> [i \in DOMAIN Of("A") |-> Pos(Of("A")[i].x, Of("A")[i].y)],
      cameras |-> [i \in DOMAIN Of("C") |-> NewCamera(Of("C")[i].x, Of("C")[i].y, 0)],
      lasers |-> [i \in DOMAIN Of("Z") |-> NewLaser(Of("Z")[i].x, Of("Z")[i].y, 3000, 0)],
      tripwires |-> [i \in DOMAIN Of("T") |-> NewTripwire(Of("T")[i].x, Of("T")[i].y)],
      safes |-> [i \in DOMAIN Of("S") |-> NewSafe(Of("S")[i].x, Of("S")[i].y)]]

\* the index of the start or exit tile: the last floor tile of the room, or
\* a pickAndRemove when the room has none
PickInRoom(floors, r) ==
  IF LastIdxIn(floors, r) # 0 THEN LastIdxIn(floors, r) ELSE PickIdx("first", floors)

\* "Place exit" at floors[eIdx], then the loops over pickAndRemove
GenItems(level, d, doors, doored, thiefPos, floors, eIdx) ==
  GenLevel(level, d.rooms, doors, thiefPos, floors[eIdx],
           PlaceAll(SetTile(doored, floors[eIdx].x, floors[eIdx].y, ">"),
                    RemoveAt(floors, eIdx), Kinds(level, d.bonusCount), 1, d))

\* "Place thief start" at floors[tIdx]; the exit goes into the last room
GenExit(level, d, doors, doored, floors, tIdx) ==
  GenItems(level, d, doors, doored, floors[tIdx], RemoveAt(floors, tIdx),
           PickInRoom(RemoveAt(floors, tIdx), d.rooms[Len(d.rooms)]))

\* the floor tiles left once the doors stand; the thief starts in room 0
GenStart(level, d, doors, doored) ==
  GenExit(level, d, doors, doored, getFloorTiles(doored),
          PickInRoom(getFloorTiles(doored), d.rooms[1]))

\* "Place doors" on the carved map
GenDoors(level, d, carved) ==
  GenStart(level, d, PlacedDoors(carved, level, d.door),
           WithDoors(carved, PlacedDoors(carved, level, d.door)))

\* generateLevel(level) under the draws d: rooms, corridors, doors, start,
\* exit, entities
generateLevel(level, d) ==
  GenDoors(level, d,
           ConnectRooms(RoomMap(d.rooms), d.rooms, <<1>>,
                        [i \in 1..(Len(d.rooms) - 1) |-> i + 1]))

\* the stats carried into a level by a run without purchased upgrades
BasePrevState == [NoPrevState EXCEPT !.exists = TRUE]

\* the stats carried into a level by a run that bought battery_up and cheap_hack
HackPrevState ==
  [BasePrevState EXCEPT !.drone.maxBattery = 125, !.drone.hackCost = 20]

\* the stats carried into a level by a run that bought cheap_hack and
\* fast_charge
CheapHackPrevState ==
  [BasePrevState EXCEPT !.drone.hackCost = 20, !.drone.chargeSpeed = 2500]

\* the stats carried into a level by a run that bought extra_smoke and has
\* used no smoke bomb since
SmokePrevState == [BasePrevState EXCEPT !.thief.smokeCharges = 2]

\* the stats carried into a level by a run that had one noise-maker left
PatrolPrevState == [BasePrevState EXCEPT !.thief.noiseCharges = 1]

----------------------------------------------------------------------------
(* Rooms and connections *)

\* the connections of a run; generatePlayerId gives connection c the id c
Conns == 1..MaxConns

\* the keys of room.players and of room.purchasedUpgrades
Roles == {"thief", "drone"}

\* the closure variables of wss.on('connection') before any message:
\* roomCode 0 is null, role "none" is null
NewConn == [readyState |-> "connecting", playerId |-> 0, roomCode |-> 0, role |-> "none"]

\* an undefined entry of room.players (ws 0), and a filled one
NoPlayer == [ws |-> 0, id |-> 0, connected |-> FALSE]

Player(c) == [ws |-> c, id |-> c, connected |-> TRUE]

\* the registry before the room is hosted: code 0
\* a name every object inherits from Object.prototype: room.players[k] is
\* defined (the function Object) for it although the room has no such slot,
\* and what a handler writes to room.players[k] lands on that shared function,
\* kept here in the field `constructor`
InheritedKeys == {"constructor"}

NoRoom ==
  [registered |-> FALSE, code |-> 0,
   players |-> [thief |-> NoPlayer, drone |-> NoPlayer, constructor |-> NoPlayer],
   hasState |-> FALSE, interval |-> FALSE, timers |-> 0, paused |-> FALSE,
   level |-> 1, totalScore |-> 0,
   purchasedUpgrades |-> [thief |-> <<>>, drone |-> <<>>],
   isLocal |-> FALSE]

\* clearInterval(room.interval); rooms.delete(roomCode): the timer whose
\* handle the room holds is cancelled
Deleted(rm) ==
  [NoRoom EXCEPT !.code = rm.code,
                 !.timers = rm.timers - (IF rm.interval THEN 1 ELSE 0)]

\* rooms.get(code) is defined
Found(sv, code) == code # 0 /\ sv.room.registered /\ sv.room.code = code

\* room.players[r] is truthy
SlotDefined(rm, r) ==
  \/ r \in InheritedKeys
  \/ r \in Roles /\ rm.players[r].ws # 0

\* one frame written to connection `to`; arg is the score it carries
Msg(to, type, arg) == [to |-> to, type |-> type, arg |-> arg]

\* p && p.ws && p.ws.readyState === 1
WsOpen(sv, p) == p.ws # 0 /\ sv.conns[p.ws].readyState = "open"

Partner(r) == IF r = "thief" THEN "drone" ELSE "thief"

\* the frames of one type written to every slot with an open socket
ToOpenSlots(sv, type, arg) ==
  (IF WsOpen(sv, sv.room.players.thief)
   THEN << Msg(sv.room.players.thief.ws, type, arg) >> ELSE <<>>)
  \o (IF WsOpen(sv, sv.room.players.drone)
      THEN << Msg(sv.room.players.drone.ws, type, arg) >> ELSE <<>>)

\* the message handlers run on an open socket
Opened(sv, c) == [sv EXCEPT !.conns[c].readyState = "open"]

\* case 'host'
host(sv, c) ==
  [Opened(sv, c) EXCEPT
     !.room = [NoRoom EXCEPT !.registered = TRUE, !.code = 1,
                             !.players.thief = Player(c)],
     !.conns[c].playerId = c, !.conns[c].roomCode = 1, !.conns[c].role = "thief",
     !.sent = << Msg(c, "hosted", 0) >>]

\* case 'hostLocal'
hostLocal(sv, c, ld, objIds) ==
  [Opened(sv, c) EXCEPT
     !.room = [NoRoom EXCEPT !.registered = TRUE, !.code = 1,
                             !.players.thief = Player(c),
                             !.players.drone = Player(c),
                             !.hasState = TRUE, !.interval = TRUE, !.timers = 1,
                             !.isLocal = TRUE],
     !.state = createGameState(1, NoPrevState, ld, objIds),
     !.conns[c].playerId = c, !.conns[c].roomCode = 1, !.conns[c].role = "local",
     !.sent = << Msg(c, "localStarted", 0) >>]

\* a join that starts an interval timer for every drone it seats
joinStartsTimer(sv, c, code, ld, objIds) ==
  LET o == Opened(sv, c)
      rm == o.room
  IN IF ~Found(o, code) THEN [o EXCEPT !.sent = << Msg(c, "error", 0) >>]
     ELSE IF rm.players.drone.ws # 0 /\ rm.players.drone.connected
     THEN [o EXCEPT !.sent = << Msg(c, "error", 0) >>]
     ELSE LET b == [o EXCEPT !.conns[c].playerId = c, !.conns[c].roomCode = code,
                             !.conns[c].role = "drone",
                             !.room.players.drone = Player(c),
                             !.room.interval = TRUE,
                             !.room.timers = @ + 1]
          IN IF ~rm.hasState
             THEN [b EXCEPT !.state = createGameState(rm.level, NoPrevState, ld, objIds),
                            !.room.hasState = TRUE,
                            !.sent = << Msg(c, "joined", 0) >>]
             ELSE [b EXCEPT !.room.paused = FALSE,
                            !.sent = << Msg(c, "joined", 0) >>]

\* case 'join'
join(sv, c, code, ld, objIds) ==
  LET o == Opened(sv, c)
      rm == o.room
  IN IF ~Found(o, code) THEN [o EXCEPT !.sent = << Msg(c, "error", 0) >>]
     ELSE IF rm.players.drone.ws # 0 /\ rm.players.drone.connected
     THEN [o EXCEPT !.sent = << Msg(c, "error", 0) >>]
     ELSE LET b == [o EXCEPT !.conns[c].playerId = c, !.conns[c].roomCode = code,
                             !.conns[c].role = "drone",
                             !.room.players.drone = Player(c)]
              partnerJoined ==
                IF WsOpen(b, rm.players.thief)
                THEN << Msg(rm.players.thief.ws, "partnerJoined", 0) >> ELSE <<>>
              partnerReconnected ==
                IF WsOpen(b, rm.players.thief)
                THEN << Msg(rm.players.thief.ws, "partnerReconnected", 0) >> ELSE <<>>
          IN IF ~rm.hasState
             THEN [b EXCEPT !.state = createGameState(rm.level, NoPrevState, ld, objIds),
                            !.room.hasState = TRUE, !.room.interval = TRUE,
                            !.room.timers = @ + 1,
                            !.sent = << Msg(c, "joined", 0) >> \o partnerJoined]
             ELSE [b EXCEPT !.room.paused = FALSE,
                            !.sent = << Msg(c, "joined", 0) >> \o partnerJoined
                                       \o partnerReconnected]

\* case 'reconnect' with a world that is generated anew for the returning
\* player
reconnectFresh(sv, c, code, rRole) ==
  LET o == Opened(sv, c)
      rm == o.room
  IN IF ~Found(o, code) THEN [o EXCEPT !.sent = << Msg(c, "error", 0) >>]
     ELSE IF rRole = "" \/ ~SlotDefined(rm, rRole)
     THEN [o EXCEPT !.sent = << Msg(c, "error", 0) >>]
     ELSE [o EXCEPT !.conns[c].playerId = c, !.conns[c].roomCode = code,
                    !.conns[c].role = rRole,
                    !.room.players[rRole] = Player(c),
                    !.room.paused = FALSE,
                    !.state = [@ EXCEPT !.timer = 0, !.thief.x = 0, !.thief.y = 0],
                    !.sent = << Msg(c, "reconnected", 0) >>]

\* case 'reconnect'
reconnect(sv, c, code, rRole) ==
  LET o == Opened(sv, c)
      rm == o.room
  IN IF ~Found(o, code) THEN [o EXCEPT !.sent = << Msg(c, "error", 0) >>]
     ELSE IF rRole = "" \/ ~SlotDefined(rm, rRole)
     THEN [o EXCEPT !.sent = << Msg(c, "error", 0) >>]
     ELSE LET b == [o EXCEPT !.conns[c].playerId = c, !.conns[c].roomCode = code,
                             !.conns[c].role = rRole,
                             !.room.players[rRole] = Player(c),
                             !.room.paused = FALSE]
          IN [b EXCEPT !.sent =
                << Msg(c, "reconnected", 0) >>
                \o (IF WsOpen(b, b.room.players[Partner(rRole)])
                    THEN << Msg(b.room.players[Partner(rRole)].ws, "partnerReconnected", 0) >>
                    ELSE <<>>)]

\* a close handler that does not compare the slot's id with the connection's
closeWhoeverHolds(sv, c) ==
  LET o == [sv EXCEPT !.conns[c].readyState = "closed"]
      cn == o.conns[c]
      rm == o.room
  IN IF cn.roomCode = 0 THEN o
     ELSE IF ~Found(o, cn.roomCode) THEN o
     ELSE IF SlotDefined(rm, cn.role)
     THEN [o EXCEPT !.room.players[cn.role].connected = FALSE,
                    !.room.paused = TRUE,
                    !.sent = IF WsOpen(o, rm.players[Partner(cn.role)])
                             THEN << Msg(rm.players[Partner(cn.role)].ws,
                                         "partnerDisconnected", 0) >>
                             ELSE <<>>,
                    !.timeouts = @ \cup {Grace}]
     ELSE o

\* ws.on('close'): the socket is closed when the handler runs
close(sv, c) ==
  LET o == [sv EXCEPT !.conns[c].readyState = "closed"]
      cn == o.conns[c]
      rm == o.room
  IN IF cn.roomCode = 0 THEN o
     ELSE IF ~Found(o, cn.roomCode) THEN o
     ELSE IF SlotDefined(rm, cn.role) /\ rm.players[cn.role].id = cn.playerId
     THEN [o EXCEPT !.room.players[cn.role].connected = FALSE,
                    !.room.paused = TRUE,
                    !.sent = IF WsOpen(o, rm.players[Partner(cn.role)])
                             THEN << Msg(rm.players[Partner(cn.role)].ws,
                                         "partnerDisconnected", 0) >>
                             ELSE <<>>,
                    !.timeouts = @ \cup {Grace}]
     ELSE o

\* the callback of the setTimeout of ws.on('close')
teardown(sv) ==
  LET anyConnected == \E r \in Roles : sv.room.players[r].ws # 0
                                       /\ sv.room.players[r].connected
  IN IF ~sv.room.registered THEN sv
     ELSE IF ~anyConnected THEN [sv EXCEPT !.room = Deleted(@)]
     ELSE sv

\* an exception that leaves the 'message' listener ends the process: the
\* registry, the timers and every socket go with it
crash(sv) ==
  [sv EXCEPT !.pc = "crashed",
             !.room = [Deleted(@) EXCEPT !.timers = 0],
             !.conns = [c \in DOMAIN @ |->
                          [@[c] EXCEPT !.readyState =
                             IF @ = "open" THEN "closed" ELSE @]],
             !.timeouts = {},
             !.sent = <<>>]

\* what JSON.parse makes of an inbound text that is no message object:
\* a SyntaxError, null, or a value whose .type is undefined
Payloads == {"unparseable", "null", "number", "text", "list", "untyped"}

\* ws.on('message') up to the switch: JSON.parse inside try/catch, then
\* msg.type read outside it
message(sv, c, raw) ==
  IF raw = "unparseable" THEN sv
  ELSE IF raw = "null" THEN crash(sv)
  ELSE sv

----------------------------------------------------------------------------
(* Upgrades and run progression *)

THIEF_UPGRADES ==
  << [id |-> "hp_up", cost |-> 1000], [id |-> "vision_up", cost |-> 800],
     [id |-> "fast_pick", cost |-> 600], [id |-> "extra_noise", cost |-> 500],
     [id |-> "extra_smoke", cost |-> 700], [id |-> "sprint_up", cost |-> 600] >>

DRONE_UPGRADES ==
  << [id |-> "battery_up", cost |-> 800], [id |-> "fast_charge", cost |-> 600],
     [id |-> "long_freeze", cost |-> 700], [id |-> "cheap_hack", cost |-> 900],
     [id |-> "extra_emp", cost |-> 800], [id |-> "extra_decoy", cost |-> 600] >>

\* upgrade.apply(room.gameState)
applyUpgrade(id, s) ==
  CASE id = "hp_up" -> [s EXCEPT !.thief.maxHp = @ + 1, !.thief.hp = s.thief.maxHp + 1]
    [] id = "vision_up" -> [s EXCEPT !.thief.visionRadius = OrDefault(@, 4) + 1]
    [] id = "fast_pick" -> [s EXCEPT !.thief.pickSpeed = OrDefault(@, 3000) - 1000]
    [] id = "extra_noise" -> [s EXCEPT !.thief.noiseCharges = OrDefault(@, 2) + 1]
    [] id = "extra_smoke" -> [s EXCEPT !.thief.smokeCharges = OrDefault(@, 1) + 1]
    [] id = "sprint_up" -> [s EXCEPT !.thief.sprintDuration = OrDefault(@, 2000) + 1000]
    [] id = "battery_up" -> [s EXCEPT !.drone.maxBattery = @ + 25,
                                      !.drone.battery = s.drone.maxBattery + 25]
    [] id = "fast_charge" -> [s EXCEPT !.drone.chargeSpeed = OrDefault(@, 3000) - 500]
    [] id = "long_freeze" -> [s EXCEPT !.drone.freezeDuration = OrDefault(@, 5000) + 3000]
    [] id = "cheap_hack" -> [s EXCEPT !.drone.hackCost = Max(10, OrDefault(@, 25) - 5)]
    [] id = "extra_emp" -> [s EXCEPT !.drone.empCharges = OrDefault(@, 1) + 1]
    [] id = "extra_decoy" -> [s EXCEPT !.drone.decoyCharges = OrDefault(@, 1) + 1]

\* array.includes(e)
Includes(seq, e) == \E i \in DOMAIN seq : seq[i] = e

\* sendUpgradeState(room)
sendUpgradeState(sv) ==
  [sv EXCEPT !.sent = ToOpenSlots(sv, "upgrades", sv.room.totalScore + sv.state.score)]

\* case 'upgrade'; upgradeId and upgradeRole "" are a missing field
upgrade(sv, c, upgradeId, upgradeRole) ==
  LET cn == sv.conns[c]
      rm == sv.room
      upgList == IF upgradeRole = "thief" THEN THIEF_UPGRADES ELSE DRONE_UPGRADES
      ui == FirstIdx(upgList, LAMBDA u : u.id = upgradeId)
  IN IF cn.roomCode = 0 THEN sv
     ELSE IF ~Found(sv, cn.roomCode) \/ ~rm.hasState \/ ~sv.state.gameWon THEN sv
     ELSE IF upgradeId = "" \/ upgradeRole = "" THEN sv
     ELSE IF upgradeRole \notin Roles THEN crash(sv)
     ELSE IF Includes(rm.purchasedUpgrades[upgradeRole], upgradeId) THEN sv
     ELSE IF ui = 0 THEN sv
     ELSE IF rm.totalScore + sv.state.score < upgList[ui].cost THEN sv
     ELSE LET left == rm.totalScore - upgList[ui].cost
              paid == IF left < 0
                      THEN [sv EXCEPT !.state.score = @ + left, !.room.totalScore = 0]
                      ELSE [sv EXCEPT !.room.totalScore = left]
          IN sendUpgradeState(
               [paid EXCEPT !.room.purchasedUpgrades[upgradeRole] = Append(@, upgradeId),
                            !.state = applyUpgrade(upgradeId, @)])

\* the previous world state as createGameState reads it
PrevState(s) == [exists |-> TRUE, thief |-> s.thief, drone |-> s.drone]

\* case 'nextLevel' with the level's score banked twice
nextLevelBanksTwice(sv, c, ld, objIds) ==
  LET cn == sv.conns[c]
      rm == sv.room
  IN IF cn.roomCode = 0 \/ (cn.role # "thief" /\ cn.role # "local") THEN sv
     ELSE IF ~Found(sv, cn.roomCode) \/ ~rm.hasState \/ ~sv.state.gameWon THEN sv
     ELSE LET banked == [sv EXCEPT !.room.totalScore = @ + 2 * sv.state.score,
                                   !.room.level = @ + 1]
          IN IF banked.room.level > MaxLevels
             THEN [banked EXCEPT
                     !.sent = ToOpenSlots(banked, "gameComplete", banked.room.totalScore),
                     !.room = Deleted(@)]
             ELSE [banked EXCEPT
                     !.state = createGameState(banked.room.level, PrevState(sv.state),
                                               ld, objIds)]

\* case 'nextLevel'
nextLevel(sv, c, ld, objIds) ==
  LET cn == sv.conns[c]
      rm == sv.room
  IN IF cn.roomCode = 0 \/ (cn.role # "thief" /\ cn.role # "local") THEN sv
     ELSE IF ~Found(sv, cn.roomCode) \/ ~rm.hasState \/ ~sv.state.gameWon THEN sv
     ELSE LET banked == [sv EXCEPT !.room.totalScore = @ + sv.state.score,
                                   !.room.level = @ + 1]
          IN IF banked.room.level > MaxLevels
             THEN [banked EXCEPT
                     !.sent = ToOpenSlots(banked, "gameComplete", banked.room.totalScore),
                     !.room = Deleted(@)]
             ELSE [banked EXCEPT
                     !.state = createGameState(banked.room.level, PrevState(sv.state),
                                               ld, objIds)]

\* case 'retry' with the stats of the lost world carried over
retryKeepsStats(sv, c, ld, objIds) ==
  LET cn == sv.conns[c]
      rm == sv.room
  IN IF cn.roomCode = 0 \/ (cn.role # "thief" /\ cn.role # "local") THEN sv
     ELSE IF ~Found(sv, cn.roomCode) \/ ~rm.hasState \/ ~sv.state.gameOver THEN sv
     ELSE [sv EXCEPT !.room.level = 1,
                     !.room.totalScore = 0,
                     !.room.purchasedUpgrades = [thief |-> <<>>, drone |-> <<>>],
                     !.state = createGameState(1, PrevState(sv.state), ld, objIds)]

\* case 'retry'
retry(sv, c, ld, objIds) ==
  LET cn == sv.conns[c]
      rm == sv.room
  IN IF cn.roomCode = 0 \/ (cn.role # "thief" /\ cn.role # "local") THEN sv
     ELSE IF ~Found(sv, cn.roomCode) \/ ~rm.hasState \/ ~sv.state.gameOver THEN sv
     ELSE [sv EXCEPT !.room.level = 1,
                     !.room.totalScore = 0,
                     !.room.purchasedUpgrades = [thief |-> <<>>, drone |-> <<>>],
                     !.state = createGameState(1, NoPrevState, ld, objIds)]

\* broadcastState(room)
broadcastState(sv) ==
  IF ~sv.room.hasState THEN sv
  ELSE [sv EXCEPT !.sent = ToOpenSlots(sv, "state", 0),
                  !.state = clearEvents(@)]

----------------------------------------------------------------------------
(* Actions: the handlers of ws.on('message') case 'input', and the interval *)

\* dx and dy of an input message
Deltas == {-1, 0, 1}

\* the server as the handlers see it
Sv == [room |-> room, state |-> state, conns |-> conns, timeouts |-> timeouts,
       sent |-> sent, pc |-> pc]

\* one handler run to its end between two fires of the interval
Server(next) ==
  /\ pc = "idle"
  /\ room' = next.room
  /\ state' = next.state
  /\ conns' = next.conns
  /\ timeouts' = next.timeouts
  /\ sent' = next.sent
  /\ pc' = next.pc

\* an intent is taken between two fires of the interval, while fewer than
\* MaxQueued sound events wait for the next broadcast
InputOpen == pc = "idle" /\ Len(state.sounds) < MaxQueued

\* connection c is open and its intents are read for inputRole:
\* inputRole = (role === 'local') ? (msg.role || 'thief') : role
InputFrom(c, inputRole) ==
  /\ conns[c].readyState = "open"
  /\ conns[c].role \in {inputRole, "local"}

\* case 'input' passes its early returns
inputAccepted(sv, c) ==
  /\ sv.conns[c].roomCode # 0
  /\ sv.conns[c].role # "none"
  /\ Found(sv, sv.conns[c].roomCode)
  /\ sv.room.hasState
  /\ ~sv.room.paused

\* one input message handled: only the world state changes
Input(inputRole, next) ==
  /\ InputOpen
  /\ \E c \in Conns :
       /\ InputFrom(c, inputRole)
       /\ state' = IF inputAccepted(Sv, c) THEN next ELSE state
  /\ UNCHANGED <<pc, room, conns, timeouts, sent>>

ThiefMove == \E dx \in Deltas, dy \in Deltas : Input("thief", moveThief(state, dx, dy))

PickStart == Input("thief", startPickLock(state))

PickStop == Input("thief", stopPickLock(state))

Sprint == Input("thief", thiefSprint(state))

\* case 'throwNoise': thiefThrowNoise(state, msg.dx || 0, msg.dy || -1)
ThrowNoise ==
  \E dx \in Deltas, dy \in Deltas :
    Input("thief", thiefThrowNoise(state, dx, IF dy = 0 THEN -1 ELSE dy))

Smoke == Input("thief", thiefSmokeBomb(state))

DroneMove == \E dx \in Deltas, dy \in Deltas : Input("drone", droneMove(state, dx, dy))

DroneHack == Input("drone", droneHack(state))

DroneEMP == Input("drone", droneEMP(state))

DroneDecoy == Input("drone", droneDecoy(state))

DronePing == Input("drone", dronePing(state, state.drone.x, state.drone.y))

\* a fire of the room's interval, first half: tickRoom(room, 100), which
\* returns at once while room.paused
TickWithin(maxTimer) ==
  /\ pc = "idle"
  /\ room.registered /\ room.interval
  /\ state.timer < maxTimer
  /\ state' = IF room.paused THEN state ELSE tickRoom(state, Dt)
  /\ pc' = "ticked"
  /\ UNCHANGED <<room, conns, timeouts, sent>>

\* a fire of the room's interval, second half: broadcastState(room) sends
\* the snapshot and clears the one-shot events
Broadcast ==
  /\ pc = "ticked"
  /\ state' = broadcastState(Sv).state
  /\ sent' = broadcastState(Sv).sent
  /\ pc' = "idle"
  /\ UNCHANGED <<room, conns, timeouts>>

\* the message that binds a connection is its first; connections are
\* numbered in the order in which they first speak
Unbound(c) ==
  /\ conns[c].role = "none"
  /\ \/ conns[c].readyState = "open"
     \/ /\ conns[c].readyState = "connecting"
        /\ \A d \in Conns : d < c => conns[d].readyState # "connecting"

Host == \E c \in Conns : Unbound(c) /\ room.code = 0 /\ Server(host(Sv, c))

HostLocal(ld, objIds) ==
  \E c \in Conns : Unbound(c) /\ room.code = 0 /\ Server(hostLocal(Sv, c, ld, objIds))

Join(ld, objIds) == \E c \in Conns : Unbound(c) /\ Server(join(Sv, c, 1, ld, objIds))

\* a reconnect that names one of the given roles
ReconnectAs(roles) ==
  \E c \in Conns, rRole \in roles :
    Unbound(c) /\ Server(reconnect(Sv, c, 1, rRole))

Reconnect == ReconnectAs(Roles \cup {"local"})

\* join and reconnect messages that name one of the given codes
JoinTo(codes, ld, objIds) ==
  \E c \in Conns, code \in codes : Unbound(c) /\ Server(join(Sv, c, code, ld, objIds))

ReconnectTo(codes, roles) ==
  \E c \in Conns, code \in codes, rRole \in roles :
    Unbound(c) /\ Server(reconnect(Sv, c, code, rRole))

\* one of the given connections closes
CloseOf(cs) == \E c \in cs : conns[c].readyState = "open" /\ Server(close(Sv, c))

Close == CloseOf(Conns)

\* time passes up to the next teardown, at most MaxElapse at once
Elapse ==
  /\ pc = "idle"
  /\ timeouts # {}
  /\ 0 \notin timeouts
  /\ LET next == CHOOSE t \in timeouts : \A u \in timeouts : t <= u
         d == Min(MaxElapse, next)
     IN timeouts' = {t - d : t \in timeouts}
  /\ UNCHANGED <<state, pc, room, conns, sent>>

\* a teardown callback that is due runs
Teardown ==
  /\ 0 \in timeouts
  /\ Server([teardown(Sv) EXCEPT !.timeouts = @ \ {0}])

Upgrade(ids, roles) ==
  \E c \in Conns, upgradeId \in ids, upgradeRole \in roles :
    conns[c].readyState = "open" /\ Server(upgrade(Sv, c, upgradeId, upgradeRole))

NextLevel(ld, objIds) ==
  \E c \in Conns : conns[c].readyState = "open" /\ Server(nextLevel(Sv, c, ld, objIds))

Retry(ld, objIds) ==
  \E c \in Conns : conns[c].readyState = "open" /\ Server(retry(Sv, c, ld, objIds))

\* a client sends a text that is no message object
Malformed ==
  \E c \in Conns, raw \in Payloads :
    conns[c].readyState = "open" /\ Server(message(Sv, c, raw))

\* a networked room in play: connection 1 hosted it, connection 2 joined
Playing(level, totalScore, purchased) ==
  /\ room = [NoRoom EXCEPT !.registered = TRUE, !.code = 1,
                           !.players = [@ EXCEPT !.thief = Player(1), !.drone = Player(2)],
                           !.hasState = TRUE, !.interval = TRUE, !.timers = 1,
                           !.level = level, !.totalScore = totalScore,
                           !.purchasedUpgrades = purchased]
  /\ conns = [c \in Conns |->
               IF c = 1 THEN [readyState |-> "open", playerId |-> 1, roomCode |-> 1,
                              role |-> "thief"]
               ELSE IF c = 2 THEN [readyState |-> "open", playerId |-> 2, roomCode |-> 1,
                                   role |-> "drone"]
               ELSE NewConn]
  /\ timeouts = {}
  /\ sent = <<>>

\* the ledger of a run without purchases
NoUpgrades == [thief |-> <<>>, drone |-> <<>>]

----------------------------------------------------------------------------
(* Specifications *)

\* the pairs of objective ids drawn by pickObjectives in the modelled runs
ObjectivePairs == {<<"ghost", "collector">>, <<"speed_demon", "hacker">>}

\* Loot, safe, exit and win scoring on the vault floor
TickLoot == TickWithin(MaxTimerLoot)

InitLoot ==
  /\ state \in {createGameState(3, BasePrevState, VaultLevel, o) : o \in ObjectivePairs}
  /\ pc = "idle"
  /\ Playing(3, 8000, NoUpgrades)

NextLoot ==
  \/ TickLoot
  \/ Broadcast
  \/ ThiefMove
  \/ DroneMove

SpecLoot == InitLoot /\ [][NextLoot]_vars

\* Guard AI, camera and tripwire on the patrol floor
TickGuard == TickWithin(MaxTimerGuard)

InitGuard ==
  /\ state = createGameState(5, PatrolPrevState, PatrolLevel, <<"ghost", "untouchable">>)
  /\ pc = "idle"
  /\ Playing(5, 16000, NoUpgrades)

NextGuard ==
  \/ TickGuard
  \/ Broadcast
  \/ ThiefMove
  \/ Sprint
  \/ ThrowNoise
  \/ DroneDecoy

SpecGuard == InitGuard /\ [][NextGuard]_vars

\* Noise-makers and decoys thrown at the patrolling guard
TickNoise == TickWithin(MaxTimerNoise)

NextNoise ==
  \/ TickNoise
  \/ Broadcast
  \/ ThrowNoise
  \/ DroneDecoy

SpecNoise == InitGuard /\ [][NextNoise]_vars

\* Detection by the guard, the camera and the tripwire on the patrol floor
TickDetect == TickWithin(MaxTimerDetect)

InitDetect ==
  /\ state = createGameState(5, BasePrevState, PatrolLevel, <<"ghost", "untouchable">>)
  /\ pc = "idle"
  /\ Playing(5, 16000, NoUpgrades)

NextDetect ==
  \/ TickDetect
  \/ Broadcast
  \/ ThiefMove

SpecDetect == InitDetect /\ [][NextDetect]_vars

\* The alarm countdown and the damage sources on the alarm floor
TickAlarm == TickWithin(MaxTimerAlarm)

InitAlarm ==
  /\ state = createGameState(2, BasePrevState, AlarmLevel, <<"ghost", "untouchable">>)
  /\ pc = "idle"
  /\ Playing(2, 4000, NoUpgrades)

NextAlarm ==
  \/ TickAlarm
  \/ Broadcast
  \/ ThiefMove
  \/ DroneHack

SpecAlarm == InitAlarm /\ [][NextAlarm]_vars

\* Drone hacks on the hack floor
TickHack == TickWithin(MaxTimerHack)

InitHack ==
  /\ state = createGameState(2, HackPrevState, HackLevel, <<"hacker", "efficient">>)
  /\ pc = "idle"
  /\ Playing(2, 2300, [thief |-> <<>>, drone |-> <<"battery_up", "cheap_hack">>])

NextHack ==
  \/ TickHack
  \/ Broadcast
  \/ DroneMove
  \/ DroneHack

SpecHack == InitHack /\ [][NextHack]_vars

\* The drone's battery over hacks, recharges, upgrades and level advances
TickBattery == TickWithin(MaxTimerBattery)

InitBattery ==
  /\ state = createGameState(4, CheapHackPrevState, BatteryLevel, <<"hacker", "efficient">>)
  /\ pc = "idle"
  /\ Playing(4, 500, [thief |-> <<>>, drone |-> <<"cheap_hack", "fast_charge">>])

UpgradeBattery == Upgrade({"battery_up", "cheap_hack"}, {"drone"})

NextLevelBattery == NextLevel(BatteryLevel, <<"hacker", "efficient">>)

NextBattery ==
  \/ TickBattery
  \/ Broadcast
  \/ ThiefMove
  \/ DroneMove
  \/ DroneHack
  \/ UpgradeBattery
  \/ NextLevelBattery

SpecBattery == InitBattery /\ [][NextBattery]_vars

\* Rooms over host, join, disconnect, reconnect and teardown
TickSession == TickWithin(MaxTimerSession)

\* no room is hosted yet and no connection has arrived; `state` is not read
\* while room.hasState is FALSE
InitSession ==
  /\ state = createGameState(1, NoPrevState, LobbyLevel, <<"ghost", "untouchable">>)
  /\ pc = "idle"
  /\ room = NoRoom
  /\ conns = [c \in Conns |-> NewConn]
  /\ timeouts = {}
  /\ sent = <<>>

HostLocalSession == HostLocal(LobbyLevel, <<"ghost", "untouchable">>)

JoinSession == Join(LobbyLevel, <<"ghost", "untouchable">>)

NextSession ==
  \/ Host
  \/ HostLocalSession
  \/ JoinSession
  \/ Reconnect
  \/ Close
  \/ Elapse
  \/ Teardown
  \/ TickSession
  \/ Broadcast
  \/ ThiefMove

SpecSession == InitSession /\ [][NextSession]_vars

\* A room in play over disconnects, reconnects and joins that re-fill the
\* drone slot, before any teardown is due
InitRejoin ==
  /\ state = createGameState(1, NoPrevState, LobbyLevel, <<"ghost", "untouchable">>)
  /\ pc = "idle"
  /\ Playing(1, 0, NoUpgrades)

NextRejoin ==
  \/ JoinSession
  \/ Reconnect
  \/ Close
  \/ TickSession
  \/ Broadcast
  \/ ThiefMove

SpecRejoin == InitRejoin /\ [][NextRejoin]_vars

\* The life of a room and of its interval timer, from hosting to the end of
\* the run after the last level
TickTimers == TickWithin(MaxTimerTimers)

ReconnectTimers == ReconnectAs({"drone"})

\* the thief walks on towards the exit
ThiefAhead == Input("thief", moveThief(state, 1, 0))

RetryTimers == Retry(LobbyLevel, <<"ghost", "untouchable">>)

NextLevelTimers == NextLevel(LobbyLevel, <<"ghost", "untouchable">>)

NextTimers ==
  \/ Host
  \/ HostLocalSession
  \/ JoinSession
  \/ ReconnectTimers
  \/ Close
  \/ TickTimers
  \/ Broadcast
  \/ ThiefAhead
  \/ NextLevelTimers
  \/ RetryTimers

SpecTimers == InitSession /\ [][NextTimers]_vars

\* Rooms that are left for good: connections arrive, host or join, and
\* close; none reconnects
NextLeave ==
  \/ Host
  \/ HostLocalSession
  \/ JoinSession
  \/ Close
  \/ Elapse
  \/ Teardown
  \/ TickSession
  \/ Broadcast

\* the timers of the event loop run when they are due: pending teardowns
\* come due and run between two fires of the interval, however often it
\* fires, and the interval keeps firing
FairLeave ==
  /\ InitSession /\ [][NextLeave]_vars
  /\ SF_vars(Elapse)
  /\ SF_vars(Teardown)
  /\ WF_vars(TickSession)
  /\ WF_vars(Broadcast)

\* A run over wins, upgrades and level advances
TickRun == TickWithin(MaxTimerRun)

\* level 4 of a run that bought extra_smoke
InitRun ==
  /\ state = createGameState(4, SmokePrevState, LobbyLevel, <<"ghost", "untouchable">>)
  /\ pc = "idle"
  /\ Playing(4, 500, [thief |-> <<"extra_smoke">>, drone |-> <<>>])

\* upgrade messages: ids of both catalogs, one of neither, a missing id; the
\* two roles, one that is no role, a missing role
UpgradeRun ==
  Upgrade({"hp_up", "extra_noise", "extra_smoke", "battery_up", "cheap_hack", "bogus", ""},
          {"thief", "drone", "local", ""})

NextLevelRun == NextLevel(LobbyLevel, <<"ghost", "untouchable">>)

NextRun ==
  \/ TickRun
  \/ Broadcast
  \/ ThiefMove
  \/ Smoke
  \/ UpgradeRun
  \/ NextLevelRun

SpecRun == InitRun /\ [][NextRun]_vars

\* A hosted room over joins and reconnects that name its code or another
\* one, and a slot or something else
\* connection 1 has hosted the room and waits for its partner
InitHosted ==
  /\ state = createGameState(1, NoPrevState, LobbyLevel, <<"ghost", "untouchable">>)
  /\ pc = "idle"
  /\ room = [NoRoom EXCEPT !.registered = TRUE, !.code = 1, !.players.thief = Player(1)]
  /\ conns = [c \in Conns |->
               IF c = 1 THEN [readyState |-> "open", playerId |-> 1, roomCode |-> 1,
                              role |-> "thief"]
               ELSE NewConn]
  /\ timeouts = {}
  /\ sent = <<>>

\* the codes named by join and reconnect: the room's, and one of no room
Codes == {1, 2}

JoinHosted == JoinTo(Codes, LobbyLevel, <<"ghost", "untouchable">>)

ReconnectHosted == ReconnectTo(Codes, {"thief", "drone", "local", "constructor", ""})

NextHosted ==
  \/ JoinHosted
  \/ ReconnectHosted
  \/ Close
  \/ TickSession
  \/ Broadcast
  \/ ThiefMove

SpecHosted == InitHosted /\ [][NextHosted]_vars

\* Level 2 is won on the lobby floor; nextLevel generates level 3
InitLevels ==
  /\ state = clearEvents(moveThief(moveThief(
                createGameState(2, NoPrevState, LobbyLevel, <<"ghost", "untouchable">>),
                1, 0), 1, 0))
  /\ pc = "idle"
  /\ Playing(2, 0, NoUpgrades)

\* the level is generated, under some draws, once the message has passed the
\* handler's early returns; before a win the message changes nothing
NextLevelGenerated ==
  /\ state.gameWon
  /\ \E d \in Draws :
       \E ld \in {generateLevel(room.level + 1, d)} :
         NextLevel(ld, <<"ghost", "untouchable">>)

NextLevels == NextLevelGenerated

SpecLevels == InitLevels /\ [][NextLevels]_vars

\* Hacks and EMPs against a patrolling guard and an alarm panel
TickWard == TickWithin(MaxTimerWard)

InitWard ==
  /\ state = createGameState(1, NoPrevState, WardLevel, <<"ghost", "untouchable">>)
  /\ pc = "idle"
  /\ Playing(1, 0, NoUpgrades)

NextWard ==
  \/ TickWard
  \/ Broadcast
  \/ ThiefMove
  \/ DroneHack
  \/ DroneEMP

SpecWard == InitWard /\ [][NextWard]_vars

\* Lock-picks and hacks on the door floor
TickDoors == TickWithin(MaxTimerDoors)

InitDoors ==
  /\ state = createGameState(1, NoPrevState, DoorLevel, <<"ghost", "untouchable">>)
  /\ pc = "idle"
  /\ Playing(1, 0, NoUpgrades)

NextDoors ==
  \/ TickDoors
  \/ Broadcast
  \/ ThiefMove
  \/ PickStart
  \/ PickStop
  \/ DroneMove
  \/ DroneHack

SpecDoors == InitDoors /\ [][NextDoors]_vars

\* A guard frozen by the EMP, for the whole of its freeze
TickFreeze == TickWithin(MaxTimerFreeze)

NextFreeze ==
  \/ TickFreeze
  \/ Broadcast
  \/ ThiefMove
  \/ DroneEMP

SpecFreeze == InitWard /\ [][NextFreeze]_vars

\* A level under well-formed and malformed messages
UpgradeUnknownRole == Upgrade({"hp_up", "battery_up"}, {"local", "spectator"})

NextMessages ==
  \/ TickRun
  \/ Broadcast
  \/ ThiefMove
  \/ Smoke
  \/ UpgradeRun
  \/ UpgradeUnknownRole
  \/ NextLevelRun
  \/ Malformed

SpecMessages == InitRun /\ [][NextMessages]_vars

\* A run over wins, losses, upgrades, level advances and retries while the
\* drone's player drops out and comes back
\* the laser floor is followed until the thief has stood in the laser for
\* 3 s, the floors after it for MaxTimerRun
TickPause == TickWithin(IF state.lasers # <<>> THEN MaxTimerLaser ELSE MaxTimerRun)

\* the world after n fires of the interval
RECURSIVE Fires(_, _)
Fires(s, n) ==
  IF n = 0 \/ s.gameOver \/ s.gameWon THEN s
  ELSE Fires(clearEvents(tickRoom(s, Dt)), n - 1)

\* level 4 of a run that bought extra_smoke: the thief stepped into the laser
\* at once and has stood in it for 2.9 s, one hit from the end
InitPause ==
  /\ state = Fires(clearEvents(moveThief(
                createGameState(4, SmokePrevState, LaserLevel, <<"ghost", "untouchable">>),
                1, 0)), 29)
  /\ pc = "idle"
  /\ Playing(4, 500, [thief |-> <<"extra_smoke">>, drone |-> <<>>])

UpgradePause == Upgrade({"hp_up", "battery_up"}, {"thief", "drone"})

RetryPause == Retry(LobbyLevel, <<"ghost", "untouchable">>)

\* the drone's player drops out and comes back on a new connection
ClosePause == CloseOf({2})

ReconnectPause == ReconnectAs({"drone"})

NextPause ==
  \/ TickPause
  \/ Broadcast
  \/ ThiefMove
  \/ UpgradePause
  \/ NextLevelRun
  \/ RetryPause
  \/ ClosePause
  \/ ReconnectPause

SpecPause == InitPause /\ [][NextPause]_vars

\* The end of a level: the wounded thief of the laser floor dies or wins, and
\* the interval keeps firing on the ended level until retry or nextLevel
TickEnd == TickWithin(IF state.lasers # <<>> THEN MaxTimerEnd ELSE MaxTimerRun)

NextEnd ==
  \/ TickEnd
  \/ Broadcast
  \/ ThiefMove
  \/ NextLevelRun
  \/ RetryPause

SpecEnd == InitPause /\ [][NextEnd]_vars

\* Move messages that carry any dx and dy up to MaxStride, on the door floor
Strides == (0 - MaxStride)..MaxStride

\* case 'move': moveThief(state, msg.dx, msg.dy)
ThiefStride == \E dx \in Strides, dy \in Strides : Input("thief", moveThief(state, dx, dy))

NextStride ==
  \/ TickDoors
  \/ Broadcast
  \/ ThiefStride

SpecStride == InitDoors /\ [][NextStride]_vars

----------------------------------------------------------------------------
(* Claims *)

\* C1: in every reachable world state the thief's hp lies between 0 and
\* maxHp, whatever the interleaving of ticks and thief moves; once hp is 0
\* no later damage source decrements it again.
C1_HpWithinBounds ==
  /\ 0 <= state.thief.hp
  /\ state.thief.hp <= state.thief.maxHp

\* a loss recorded with exactly zero hit points, after the alarm was raised
C1_LostAtZero ==
  /\ state.gameOver
  /\ state.thief.hp = 0
  /\ state.alertTriggered

\* C2: when the thief's hp reaches 0 in the guard step, the alarm step or
\* the laser step of a tick, gameOver is set and the remaining steps of that
\* tick change nothing: the tick ends in the state that step left.
C2_LossEndsTick ==
  [][(pc = "idle" /\ pc' = "ticked" /\ ~state.gameOver /\ ~state.gameWon) =>
       \A n \in {2, 3, 6} :
         LET before == tickSteps(state, Dt, n - 1)
             after == tickSteps(state, Dt, n)
         IN (before.thief.hp > 0 /\ after.thief.hp <= 0) =>
              (after.gameOver /\ state' = after)]_vars

\* a tick has just taken the last hit point
C2_LostInTick ==
  /\ pc = "ticked"
  /\ state.gameOver
  /\ Count(state.sounds, "gameOver") > 0

\* C3: in every reachable state exitOpen holds exactly when all primary loot
\* is collected; gameWon holds only with exitOpen and the thief on the exit
\* tile; and no step sets gameWon while some primary loot is uncollected.
C3_ExitIffAllPrimary ==
  /\ [](/\ state.exitOpen <=> (state.primaryLootCollected = state.primaryLootTotal)
        /\ state.gameWon =>
             /\ state.exitOpen
             /\ state.thief.x = state.exitPos.x
             /\ state.thief.y = state.exitPos.y)
  /\ [][(~state.gameWon /\ state'.gameWon) =>
          /\ state.exitOpen
          /\ state.primaryLootCollected = state.primaryLootTotal]_vars

\* the level is won: all three primary items collected, thief on the exit
C3_WonWithAllPrimary ==
  /\ state.gameWon
  /\ state.exitOpen
  /\ state.primaryLootCollected = 3
  /\ state.thief.x = state.exitPos.x /\ state.thief.y = state.exitPos.y

\* C4: the exit-unlock transition (exitOpen set, with its "doorOpen" sound)
\* happens once per level, at the pickup of the last primary item: once the
\* exit is open no later step emits the unlock sound again.
C4_UnlockOnce ==
  [][state.exitOpen =>
       Count(state'.sounds, "doorOpen") <= Count(state.sounds, "doorOpen")]_vars

\* the unlock performed by the pickup of the last primary item
C4_Unlocked ==
  /\ state.exitOpen
  /\ state.primaryLootCollected = state.primaryLootTotal
  /\ state.bonusLootCollected = 0
  /\ Count(state.sounds, "doorOpen") = 1

\* the win score of the C5 statement, spelled out on the state a step leaves
C5_Formula ==
  state'.primaryLootCollected * 1000
  + state'.bonusLootCollected * 500
  + (IF 3000 - (state'.timer \div 1000) * 10 > 0
     THEN 3000 - (state'.timer \div 1000) * 10 ELSE 0)
  + (IF state'.alertTriggered THEN 0 ELSE 2000)
  + 1000 * Cardinality({i \in DOMAIN state'.objectives :
                          ObjectiveCheck(state'.objectives[i].id, state')})

\* the loot value of the safes a step opens
C5_SafesOpened ==
  LET opened == {i \in DOMAIN state.safes : ~state.safes[i].open /\ state'.safes[i].open}
  IN IF opened = {} THEN 0 ELSE state.safes[CHOOSE i \in opened : TRUE].lootValue * Cardinality(opened)

\* C5 as stated: the step that wins the level adds exactly the win score
\* (loot, time bonus, no-alarm bonus, objectives) to score, and once the level
\* is won score no longer changes.
C5_WinScoreExact ==
  [][/\ (~state.gameWon /\ state'.gameWon) => state'.score - state.score = C5_Formula
     /\ state.gameWon => state'.score = state.score]_vars

\* C5 amended: the step that wins the level adds the win score plus the loot
\* value of every safe that same move opens; once the level is won score no
\* longer changes.
C5_WinScorePlusSafes ==
  [][/\ (~state.gameWon /\ state'.gameWon) =>
          state'.score - state.score = C5_Formula + C5_SafesOpened
     /\ state.gameWon => state'.score = state.score]_vars

\* the winning move has also opened the safe next to the exit
C5_WonOpeningSafe ==
  /\ state.gameWon
  /\ state.safes[1].open
  /\ Count(state.sounds, "victory") = 1
  /\ Count(state.sounds, "hack") = 1

\* a step is one run of tickRoom on a level still in play
TickStep ==
  pc = "idle" /\ pc' = "ticked" /\ ~state.gameOver /\ ~state.gameWon /\ ~room.paused

\* C6: an alerted guard that gets no re-detection, noise-maker or decoy
\* attraction reverts after exactly 10000 ms of ticks whatever its movement
\* period: every tick takes 100 ms off its alert timer, and the tick that
\* brings the timer to 0 resets the level and clears both targets.
C6_AlertTimerPerTick ==
  [][TickStep =>
       \A i \in DOMAIN state.guards :
         LET g == state.guards[i]
             h == state'.guards[i]
         IN (/\ g.alertLevel > 0
             /\ ~g.frozen
             /\ state.noisemakers = <<>>
             /\ state.decoys = <<>>
             /\ ~state.thief.sprinting
             /\ ~canSeeThief(state', h)) =>
              IF g.alertTimer - Dt <= 0
              THEN /\ h.alertLevel = 0 /\ h.alertTimer = 0
                   /\ h.lastKnownThief = Null /\ h.investigateTarget = Null
              ELSE h.alertLevel = g.alertLevel /\ h.alertTimer = g.alertTimer - Dt]_vars

\* a guard has just detected the thief: level 2, timer 10000
C6_AlertSet ==
  \E i \in DOMAIN state.guards :
    /\ state.guards[i].alertLevel = 2
    /\ state.guards[i].alertTimer = 10000
    /\ state.guards[i].lastKnownThief # Null

\* guard i went from Patrol to Alert in this step
C7_Jumped(i) == state.guards[i].alertLevel = 0 /\ state'.guards[i].alertLevel = 2

\* a decoy lies within Manhattan distance 6 of guard i as the step begins
C7_DecoyNear(i) ==
  \E d \in DOMAIN state.decoys :
    Manhattan(state.decoys[d].x, state.decoys[d].y,
              state.guards[i].x, state.guards[i].y) <= 6

\* after its move guard i shares the thief's tile, or the ray along its
\* facing reaches the thief's tile
C7_RayOrContact(i) ==
  LET h == state'.guards[i] IN
  \/ h.x = state'.thief.x /\ h.y = state'.thief.y
  \/ RaySees(state', h.x, h.y, DirVec(h.dir), 5)

\* after its move the thief stands on one of the two tiles beside guard i
C7_Beside(i) ==
  LET h == state'.guards[i]
      dv == DirVec(h.dir)
  IN Abs(state'.thief.x - h.x) = Abs(dv.y) /\ Abs(state'.thief.y - h.y) = Abs(dv.x)

C8_Cancelled ==
  /\ ~state'.alarmActive /\ state'.alarmTimer = 0
  /\ state'.drone.hacks = state.drone.hacks + 1
  /\ \E a \in DOMAIN state.alarmPanels :
       state.alarmPanels[a].x = state.drone.x /\ state.alarmPanels[a].y = state.drone.y

\* C8: an armed alarm starts at 10000 ms; each tick takes 100 ms off it;
\* the tick that brings it to 0 takes exactly one hit point in the alarm
\* step and leaves the alarm inactive with timer 0; outside ticks alarmTimer
\* changes only when a drone hack on a panel cancels the alarm.
C8_AlarmCountdown ==
  [][/\ (~state.alarmActive /\ state'.alarmActive /\ ~TickStep) => state'.alarmTimer = 10000
     /\ (state.alarmActive /\ TickStep) =>
          LET before == tickSteps(state, Dt, 2)
              after == tickSteps(state, Dt, 3)
          IN IF state.alarmTimer - Dt <= 0
             THEN /\ ~state'.alarmActive /\ state'.alarmTimer = 0
                  /\ after.thief.hp = before.thief.hp - 1
             ELSE /\ state'.alarmActive /\ state'.alarmTimer = state.alarmTimer - Dt
                  /\ after.thief.hp = before.thief.hp
     /\ (state.alarmActive /\ ~TickStep) =>
          \/ state'.alarmActive /\ state'.alarmTimer = state.alarmTimer
          \/ C8_Cancelled]_vars

\* the alarm has run out uncancelled in this tick and cost one hit point
C8_Expired ==
  /\ pc = "ticked"
  /\ state.alertTriggered /\ ~state.alarmActive /\ state.alarmTimer = 0
  /\ state.drone.hacks = 0
  /\ state.timer = 10000
  /\ state.thief.hp = state.thief.maxHp - 1
  /\ Count(state.sounds, "hit") = 1

\* the guard-and-camera step of a tick changes nothing outside the guards,
\* the camera rotation and the contact damage
C9_GuardStepFrame ==
  LET before == tickSteps(state, Dt, 1)
      after == tickSteps(state, Dt, 2)
      contact == \E i \in DOMAIN after.guards :
                   after.guards[i].x = state.thief.x /\ after.guards[i].y = state.thief.y
  IN /\ [after EXCEPT !.guards = before.guards, !.cameras = before.cameras,
                      !.thief.hp = before.thief.hp,
                      !.thief.invulnTimer = before.thief.invulnTimer,
                      !.gameOver = before.gameOver,
                      !.sounds = before.sounds,
                      !.shakeEvents = before.shakeEvents] = before
     /\ ~contact => after.sounds = before.sounds /\ after.shakeEvents = before.shakeEvents
                    /\ after.thief = before.thief /\ after.gameOver = before.gameOver

\* C9: while the alarm is active no detection re-arms it: no step emits the
\* arming shake event or writes a new arming message, alarmTimer only counts
\* down, and the guard step of a tick touches only the guards themselves
\* (and the contact damage).
C9_NoRearm ==
  [][state.alarmActive =>
       /\ Count(state'.shakeEvents, Shake(4, 400)) <= Count(state.shakeEvents, Shake(4, 400))
       /\ state'.alarmActive => state'.alarmTimer \in {state.alarmTimer, state.alarmTimer - Dt}
       /\ state'.thief.action \in {"SPOTTED!", "TRIPWIRE!"} =>
            state'.thief.action = state.thief.action
       /\ TickStep => C9_GuardStepFrame]_vars

\* with the alarm running since an earlier sighting, the thief has stepped
\* on the tripwire and the guard has detected the thief again in this tick
C9_DetectedWhileActive ==
  /\ pc = "ticked"
  /\ state.alarmActive /\ state.alarmTimer < 9900
  /\ state.thief.action = "SPOTTED!"
  /\ state.tripwires[1].triggered
  /\ \E i \in DOMAIN state.guards :
       /\ state.guards[i].alertLevel = 2 /\ state.guards[i].alertTimer = 10000
       /\ state.guards[i].moveTimer = 0
       /\ state.guards[i].lastKnownThief = Pos(state.thief.x, state.thief.y)

\* nothing at the drone cursor can be hacked: no closed electronic door, no
\* active camera, no unfrozen guard, no panel of a running alarm
C10_NothingHackable ==
  LET dx == state.drone.x
      dy == state.drone.y
  IN /\ \A d \in DOMAIN state.doors :
          ~(state.doors[d].x = dx /\ state.doors[d].y = dy
            /\ state.doors[d].type = "electronic" /\ ~state.doors[d].open)
     /\ \A c \in DOMAIN state.cameras :
          ~(state.cameras[c].x = dx /\ state.cameras[c].y = dy /\ state.cameras[c].active)
     /\ \A g \in DOMAIN state.guards :
          ~(state.guards[g].x = dx /\ state.guards[g].y = dy /\ ~state.guards[g].frozen)
     /\ ~(state.alarmActive /\ \E a \in DOMAIN state.alarmPanels :
                                 state.alarmPanels[a].x = dx /\ state.alarmPanels[a].y = dy)

\* C10: a drone hack changes nothing in the world state when nothing
\* hackable is at the cursor or when the battery is lower than the hack cost.
C10_HackNeedsBattery ==
  [][(/\ pc = "idle"
      /\ state' = droneHack(state)
      /\ (C10_NothingHackable \/ state.drone.battery < state.drone.hackCost)) =>
       state' = state]_vars

\* six hacks have left less battery than one more hack costs
C10_BatteryBelowCost ==
  /\ state.drone.hacks = 6
  /\ state.drone.battery > 0
  /\ state.drone.battery < state.drone.hackCost

\* C11: in every reachable state the drone's battery lies between 0 and its
\* maximum, whatever hacks, recharges on the pad, battery and hack-cost
\* upgrades and level advances came before
C11_BatteryWithinBounds ==
  0 <= state.drone.battery /\ state.drone.battery <= state.drone.maxBattery

\* C11 witness: on the level after an advance, with the larger battery bought,
\* a recharge on the pad has just filled a battery that a hack had drained
C11_RechargedToMax ==
  /\ pc = "ticked"
  /\ room.level = 5
  /\ Includes(room.purchasedUpgrades.drone, "battery_up")
  /\ state.drone.hacks = 1
  /\ Count(state.sounds, "charge") = 1
  /\ state.drone.battery = state.drone.maxBattery

\* C12: a teardown removes the room only when the full grace period has
\* passed since the last disconnect of a slot: at the step that removes the
\* room no teardown scheduled by a later disconnect is still pending
C12_TeardownAfterFullGrace ==
  [][(room.registered /\ ~room'.registered /\ pc' # "crashed") => timeouts' = {}]_vars

\* C12 witness: the room is gone while the teardown of the last disconnect
\* still has time to run
C12_RemovedEarly ==
  /\ ~room.registered
  /\ room.code = 1
  /\ \E t \in timeouts : t > 0

\* every connection of the run has closed, so none is left to reconnect
AllClosed == \A c \in Conns : conns[c].readyState = "closed"

ClosesBound(c) ==
  /\ conns[c].readyState = "open"
  /\ conns'[c].readyState = "closed"
  /\ room.registered
  /\ \E r \in Roles : room.players[r].ws = c

\* a step of tickRoom, or of an input intent, which leaves all but the world
\* state alone
TickOrInputStep ==
  \/ pc = "idle" /\ pc' = "ticked"
  \/ pc = "idle" /\ pc' = "idle" /\ UNCHANGED <<room, conns, timeouts, sent>>

\* C14: after the connection of a bound slot closes the room is paused, and
\* while the room is paused no tick and no input intent changes the world
\* state
C14_ClosePausesAndFreezes ==
  [][/\ \A c \in Conns : (ClosesBound(c) /\ pc' # "crashed") => room'.paused
     /\ (room.registered /\ room.paused /\ TickOrInputStep) => state' = state]_vars

\* C14 witness: the only connection of a local room has closed, the room is
\* not paused and its world has moved on since
C14_LocalRoomRunsOn ==
  /\ room.registered /\ room.isLocal
  /\ \A c \in Conns : conns[c].readyState # "open"
  /\ ~room.paused
  /\ state.timer > 0
  /\ sent = <<>>

\* C14, rooms made by host and join only: closing a slot's connection pauses
\* the room, and a paused room's world is frozen for ticks and intents
C14_NetworkedFreezes ==
  [][~room.isLocal =>
       /\ \A c \in Conns : (ClosesBound(c) /\ pc' # "crashed") => room'.paused
       /\ (room.registered /\ room.paused /\ TickOrInputStep) => state' = state]_vars

\* C15: while the room is paused no message, nextLevel, retry and upgrade
\* included, replaces or changes the world state, the level counter, the
\* banked score or the upgrade ledger
C15_PausedRunFrozen ==
  [][(room.registered /\ room.paused /\ pc = "idle") =>
       /\ state' = state
       /\ room'.level = room.level
       /\ room'.totalScore = room.totalScore
       /\ room'.purchasedUpgrades = room.purchasedUpgrades]_vars

\* C15 witness: the room is paused, the drone's player is away, and the
\* latest frames are the upgrade list sent to the thief alone after a
\* purchase of hp_up
C15_BoughtWhilePaused ==
  /\ room.registered /\ room.paused
  /\ ~room.players.drone.connected
  /\ Includes(room.purchasedUpgrades.thief, "hp_up")
  /\ Len(sent) = 1 /\ sent[1].type = "upgrades" /\ sent[1].to = 1

\* connection c takes over the slot of role r, which was filled before, by
\* a reconnect or by a join that re-fills the drone slot
Rebinds(c, r) ==
  /\ conns[c].role = "none"
  /\ conns'[c].role = r
  /\ room.registered
  /\ room.players[r].ws # 0

\* C16: a successful reconnect, and a join that re-fills the drone slot,
\* change only the slot's socket, player id and connected flag and set paused
\* to false; the world state, the level counter, the banked score, the
\* ledger and the tick timer stay as they were
C16_ReconnectFrame ==
  [][\A c \in Conns, r \in Roles :
       Rebinds(c, r) =>
         /\ state' = state
         /\ room' = [room EXCEPT !.players[r] = Player(c), !.paused = FALSE]
         /\ timeouts' = timeouts]_vars

\* C16 witness: a player has just reconnected to a room whose game had moved
\* on and was paused by a disconnect; the game is in play again
C16_ReconnectedMidGame ==
  /\ room.registered /\ room.hasState /\ ~room.paused
  /\ state.timer > 0 /\ state.thief.x > 0
  /\ timeouts # {}
  /\ Len(sent) >= 1 /\ sent[1].type = "reconnected"

\* the two halves of a fire of the interval
FireAdvance == pc = "idle" /\ pc' = "ticked"

FireBroadcast == pc = "ticked"

\* the frames of one broadcast: one state frame for each slot that
\* satisfies Receives, and nothing else
StateFramesTo(frames, Receives(_)) ==
  /\ Len(frames) = Cardinality({r \in Roles : Receives(r)})
  /\ \A i \in DOMAIN frames :
       /\ frames[i].type = "state"
       /\ \E r \in Roles : Receives(r) /\ frames[i].to = room.players[r].ws
  /\ \A r \in Roles :
       Receives(r) => \E i \in DOMAIN frames : frames[i].to = room.players[r].ws

\* C17 as stated: every fire of the tick timer advances the simulation by
\* 100 ms once and is followed at once by one state frame to every slot that
\* is connected
C17_EveryFireAdvances ==
  [][/\ FireAdvance => state'.timer = state.timer + Dt
     /\ FireBroadcast =>
          /\ pc' = "idle"
          /\ StateFramesTo(sent', LAMBDA r : room.players[r].ws # 0
                                             /\ room.players[r].connected)]_vars

\* C17 amended: every fire calls the simulation step once with 100 ms, which
\* advances the world by 100 ms when the level is in play and the room is not
\* paused and leaves it as it is otherwise; the broadcast follows at once,
\* with one state frame for every slot whose socket is open
C17_FireAdvancesInPlay ==
  [][/\ FireAdvance =>
          /\ state'.timer = state.timer
                             + (IF state.gameOver \/ state.gameWon \/ room.paused
                                THEN 0 ELSE Dt)
          /\ (state.gameOver \/ state.gameWon \/ room.paused) => state' = state
          /\ UNCHANGED <<room, conns, timeouts, sent>>
     /\ FireBroadcast =>
          /\ pc' = "idle"
          /\ StateFramesTo(sent', LAMBDA r : WsOpen(Sv, room.players[r]))
          /\ state'.timer = state.timer
          /\ UNCHANGED <<room, conns, timeouts>>]_vars

\* C17 witness: in a paused room a fire has left the clock of a running
\* level where it was and has sent the state to the one slot that is
\* still connected
C17_PausedFire ==
  /\ pc = "idle"
  /\ room.registered /\ room.paused
  /\ ~state.gameOver /\ ~state.gameWon
  /\ state.timer > 0
  /\ sent = << Msg(1, "state", 0) >>

\* a nextLevel step that replaces the world by the next level's
AdvancesLevel == room.registered /\ room'.registered /\ room'.level = room.level + 1

\* 1 when the ledger of the role holds the upgrade, else 0
Bought(rm, role, id) == IF Includes(rm.purchasedUpgrades[role], id) THEN 1 ELSE 0

\* C18: the world generated by nextLevel keeps the upgraded stats of the old
\* one, and its noise, smoke, EMP and decoy charges start at the base count
\* plus one per purchased charge upgrade, however many were used before
C18_UpgradesCarried ==
  [][AdvancesLevel =>
       /\ state'.thief.maxHp = state.thief.maxHp
       /\ state'.thief.hp = state.thief.maxHp
       /\ state'.thief.pickSpeed = state.thief.pickSpeed
       /\ state'.thief.visionRadius = state.thief.visionRadius
       /\ state'.thief.sprintDuration = state.thief.sprintDuration
       /\ state'.drone.maxBattery = state.drone.maxBattery
       /\ state'.drone.battery = state.drone.maxBattery
       /\ state'.drone.chargeSpeed = state.drone.chargeSpeed
       /\ state'.drone.freezeDuration = state.drone.freezeDuration
       /\ state'.drone.hackCost = state.drone.hackCost
       /\ state'.thief.noiseCharges = 2 + Bought(room', "thief", "extra_noise")
       /\ state'.thief.smokeCharges = 1 + Bought(room', "thief", "extra_smoke")
       /\ state'.drone.empCharges = 1 + Bought(room', "drone", "extra_emp")
       /\ state'.drone.decoyCharges = 1 + Bought(room', "drone", "extra_decoy")]_vars

\* C18 witness: level 5 has just begun with one smoke bomb although
\* extra_smoke is in the ledger
C18_SmokeNotRefilled ==
  /\ room.registered /\ room.level = 5
  /\ state.timer = 0 /\ state.smokeClouds = <<>>
  /\ Includes(room.purchasedUpgrades.thief, "extra_smoke")
  /\ state.thief.smokeCharges = 1

\* the catalog of a role, as case 'upgrade' selects it
Catalog(role) == IF role = "thief" THEN THIEF_UPGRADES ELSE DRONE_UPGRADES

\* the step is a purchase of the upgrade at position i of the role's catalog
Purchases(role, i) ==
  LET u == Catalog(role)[i]
  IN /\ room.registered /\ state.gameWon
     /\ ~Includes(room.purchasedUpgrades[role], u.id)
     /\ room.totalScore + state.score >= u.cost
     /\ room'.purchasedUpgrades =
          [room.purchasedUpgrades EXCEPT ![role] = Append(@, u.id)]
     /\ state' = [applyUpgrade(u.id, state) EXCEPT !.score = state'.score]
     /\ room'.totalScore + state'.score = room.totalScore + state.score - u.cost
     /\ room'.totalScore >= 0 /\ state'.score >= 0
     /\ room' = [room EXCEPT !.purchasedUpgrades = room'.purchasedUpgrades,
                             !.totalScore = room'.totalScore]
     /\ UNCHANGED <<pc, conns, timeouts>>

PurchaseStep == \E role \in Roles : \E i \in DOMAIN Catalog(role) : Purchases(role, i)

\* C19: an upgrade message either is a purchase (level won, id in the named
\* role's catalog and not yet in its ledger, totalScore + score >= cost; the
\* id appended once, the effect applied once, totalScore + score lowered by
\* exactly the cost, neither negative) or changes nothing
C19_UpgradeBuysOrNothing == [][UpgradeRun => PurchaseStep]_vars

\* the same for the messages that name the thief or the drone
C19_NamedRoleBuysOrNothing ==
  [][Upgrade({"hp_up", "extra_noise", "extra_smoke", "battery_up", "cheap_hack",
              "bogus", ""}, Roles) => PurchaseStep]_vars

\* an upgrade message naming a role without a ledger has ended the process
\* on a won level
C19_UnknownRoleCrashed == pc = "crashed" /\ state.gameWon /\ ~room.registered

\* a purchase that took part of its cost from the level's score
C19_PaidFromLevelScore ==
  /\ room.registered /\ state.gameWon /\ room.totalScore = 0
  /\ Len(room.purchasedUpgrades.thief) + Len(room.purchasedUpgrades.drone) > 1

\* the frames of a completion message carrying `total`, one per open slot
CompletionFrames(total) ==
  /\ sent' # <<>>
  /\ \A i \in DOMAIN sent' : sent'[i].type = "gameComplete" /\ sent'[i].arg = total
  /\ \A r \in Roles :
       WsOpen(Sv, room.players[r]) => \E i \in DOMAIN sent' : sent'[i].to = room.players[r].ws

\* a world that has just been generated for the level
FreshWorld(s, level) ==
  /\ s.level = level /\ s.timer = 0 /\ s.score = 0
  /\ ~s.gameWon /\ ~s.gameOver
  /\ s.primaryLootCollected = 0 /\ ~s.exitOpen
  /\ \A i \in DOMAIN s.loot : ~s.loot[i].collected

\* C20: a nextLevel message changes something only on a won level; it then
\* adds the level's score to totalScore once and raises the level counter by
\* one; past level 5 it sends the completion message with the banked total,
\* cancels the interval and removes the room, otherwise it replaces the world
\* by a fresh one of the new level, on which a second nextLevel does nothing
C20_NextLevelBanksAndAdvances ==
  [][NextLevelRun =>
       /\ room.registered /\ state.gameWon
       /\ UNCHANGED <<pc, conns, timeouts>>
       /\ IF room.level + 1 > MaxLevels
          THEN /\ CompletionFrames(room.totalScore + state.score)
               /\ ~room'.registered /\ ~room'.interval
               /\ state' = state
          ELSE /\ room' = [room EXCEPT !.totalScore = room.totalScore + state.score,
                                       !.level = room.level + 1]
               /\ FreshWorld(state', room.level + 1)
               /\ sent' = sent]_vars

\* level 5 was won and nextLevel completed the run: both players hold the
\* completion message with the total banked over levels 4 and 5
C20_RunCompleted ==
  /\ pc = "idle" /\ ~room.registered /\ state.gameWon /\ state.level = 5
  /\ Len(sent) = 2 /\ sent[1].type = "gameComplete"
  /\ sent[1].arg = 500 + 8000 + state.score

\* the stats of a run without upgrades
BaseStats(s) ==
  /\ s.thief.maxHp = 3 /\ s.thief.hp = 3
  /\ s.thief.pickSpeed = 3000 /\ s.thief.visionRadius = 4
  /\ s.thief.sprintDuration = 2000
  /\ s.thief.noiseCharges = 2 /\ s.thief.smokeCharges = 1
  /\ s.drone.maxBattery = 100 /\ s.drone.battery = 100
  /\ s.drone.chargeSpeed = 3000 /\ s.drone.freezeDuration = 5000
  /\ s.drone.hackCost = 25
  /\ s.drone.empCharges = 1 /\ s.drone.decoyCharges = 1

\* C21: a retry message changes something only on a lost level; it then sets
\* the level counter to 1, the banked score to 0 and the ledger to empty and
\* replaces the world by a fresh level-1 world with the base stats
C21_RetryRestartsRun ==
  [][RetryPause =>
       /\ room.registered /\ state.gameOver
       /\ room' = [room EXCEPT !.level = 1, !.totalScore = 0,
                               !.purchasedUpgrades = [thief |-> <<>>, drone |-> <<>>]]
       /\ FreshWorld(state', 1)
       /\ BaseStats(state')
       /\ UNCHANGED <<pc, conns, timeouts, sent>>]_vars

\* the run of level 4 with extra_smoke bought was lost and retried
C21_Retried ==
  /\ room.registered /\ room.level = 1 /\ room.totalScore = 0
  /\ room.purchasedUpgrades = [thief |-> <<>>, drone |-> <<>>]
  /\ state.level = 1 /\ state.timer = 0 /\ state.thief.smokeCharges = 1

\* C22: a malformed message (unparseable text, a payload that parses to a
\* non-object such as null, an upgrade whose upgradeRole is neither thief nor
\* drone) raises no error and changes no room or world state
C22_MalformedDiscarded ==
  [][(Malformed \/ UpgradeUnknownRole) => (pc' # "crashed" /\ UNCHANGED vars)]_vars

\* the payload null has ended the process in the middle of a level
C22_NullEndedProcess ==
  pc = "crashed" /\ ~room.registered /\ ~state.gameWon /\ state.timer > 0

\* malformed messages other than null leave a running server as it was
C22_OthersDiscarded ==
  [][(\E c \in Conns, raw \in Payloads \ {"null"} :
        conns[c].readyState = "open" /\ Server(message(Sv, c, raw)))
     => UNCHANGED vars]_vars

\* connection c sends a join or a reconnect that is to be refused: a join
\* with the code of no room or to a room whose drone slot is connected, a
\* reconnect with the code of no room or, of the given roles, one for which
\* the room has no slot
RefusedRequest(c, roles) ==
  LET ld == LobbyLevel
      ids == <<"ghost", "untouchable">>
  IN /\ Unbound(c)
     /\ \/ Server(join(Sv, c, 2, ld, ids))
        \/ /\ room.registered
           /\ room.players.drone.ws # 0 /\ room.players.drone.connected
           /\ Server(join(Sv, c, 1, ld, ids))
        \/ \E r \in roles : Server(reconnect(Sv, c, 2, r))
        \/ \E r \in roles :
             /\ room.registered
             /\ ~(r \in Roles /\ room.players[r].ws # 0)
             /\ Server(reconnect(Sv, c, 1, r))

\* c got an error reply and nothing else happened
ErrorOnly(c) ==
  /\ sent' = << Msg(c, "error", 0) >>
  /\ room' = room /\ state' = state
  /\ conns'[c].role = "none" /\ conns'[c].roomCode = 0
  /\ UNCHANGED <<pc, timeouts>>

\* C23: a join with an unknown code or to a room whose drone slot is
\* connected, and a reconnect naming an unknown room or a role whose slot does
\* not exist, get an error reply, leave the registry, the slots, the pause
\* flag and the world unchanged, and do not bind the sender
C23_RefusedWithError ==
  [][\A c \in Conns :
       RefusedRequest(c, {"thief", "drone", "local", "constructor", ""})
         => ErrorOnly(c)]_vars

\* the same for reconnects whose role is a slot name, 'local' or missing
C23_RefusedOwnKeys ==
  [][\A c \in Conns :
       RefusedRequest(c, {"thief", "drone", "local", ""}) => ErrorOnly(c)]_vars

\* a reconnect as 'constructor' was accepted: the sender is bound to the room
\* under that role and holds the reply 'reconnected'
C23_BoundWithoutSlot ==
  \E c \in Conns :
    /\ room.registered /\ conns[c].role = "constructor" /\ conns[c].roomCode = 1
    /\ sent # <<>> /\ sent[1] = Msg(c, "reconnected", 0)

\* p is an initial part of q
IsPrefix(p, q) == Len(p) <= Len(q) /\ SubSeq(q, 1, Len(p)) = p

\* the step leaves what is queued in place and at most appends to it, or
\* replaces the world by a fresh one
QueueKept(q, r) == IsPrefix(q, r) \/ (state'.timer = 0 /\ r = <<>>)

\* C24: the sound and shake queues are empty right after every broadcast,
\* and between broadcasts queued events are only appended, so that an event
\* is part of one snapshot at most
C24_EventsOneShot ==
  [][IF FireBroadcast
     THEN state'.sounds = <<>> /\ state'.shakeEvents = <<>>
     ELSE /\ QueueKept(state.sounds, state'.sounds)
          /\ QueueKept(state.shakeEvents, state'.shakeEvents)]_vars

\* the broadcast after the tick in which the thief was caught by the laser has
\* sent the snapshot with the gameOver sound and shake and cleared both
C24_LossBroadcast ==
  /\ pc = "idle" /\ state.gameOver /\ state.level = 4
  /\ sent # <<>> /\ sent[1].type = "state"
  /\ state.sounds = <<>> /\ state.shakeEvents = <<>>

\* the world with every door open
WithDoorsOpen(s) == [s EXCEPT !.doors = [i \in DOMAIN @ |-> [@[i] EXCEPT !.open = TRUE]]]

\* the world with every safe open
WithSafesOpen(s) == [s EXCEPT !.safes = [i \in DOMAIN @ |-> [@[i] EXCEPT !.open = TRUE]]]

\* the tiles of the grid
GridTiles(s) == {Pos(x, y) : x \in 0..(s.mapWidth - 1), y \in 0..(s.mapHeight - 1)}

\* the tiles reached from `seen` by 4-directional moves over walkable tiles
RECURSIVE Flood(_, _)
Flood(s, seen) ==
  LET next == seen \cup {q \in GridTiles(s) :
                           /\ isWalkable(s, q.x, q.y)
                           /\ \E p \in seen : Manhattan(p.x, p.y, q.x, q.y) = 1}
  IN IF next = seen THEN seen ELSE Flood(s, next)

\* the tiles the thief can walk to
ThiefReach(s) == Flood(s, {Pos(s.thief.x, s.thief.y)})

NonWall(s) == {p \in GridTiles(s) : Tile(s, p.x, p.y) # "#"}

\* C25: in every generated level every non-wall tile is reachable from the
\* thief's start tile by 4-directional moves over walkable tiles once all
\* doors are open, also with a safe or another placed entity on a corridor
C25_LevelConnected == NonWall(state) \subseteq ThiefReach(WithDoorsOpen(state))

\* a generated level 3 whose exit the thief cannot walk to with every door
\* open: a closed safe stands in the corridor between the rooms
C25_ExitCutOff ==
  /\ state.level = 3 /\ state.timer = 0
  /\ state.exitPos \notin ThiefReach(WithDoorsOpen(state))
  /\ \E i \in DOMAIN state.safes :
       /\ ~state.safes[i].open
       /\ Tile(state, state.safes[i].x - 1, state.safes[i].y) # "#"
       /\ Tile(state, state.safes[i].x + 1, state.safes[i].y) # "#"
       /\ Tile(state, state.safes[i].x, state.safes[i].y - 1) = "#"
       /\ Tile(state, state.safes[i].x, state.safes[i].y + 1) = "#"

\* with the safes open as well every generated level is one component
C25_ConnectedButForSafes ==
  NonWall(state) \subseteq ThiefReach(WithSafesOpen(WithDoorsOpen(state)))

----------------------------------------------------------------------------
(* Hacks, freezes, damage and doors *)

UnderDrone(s, e) == e.x = s.drone.x /\ e.y = s.drone.y

\* the closed electronic doors, active cameras and non-frozen guards at the
\* drone's cursor, and whether a panel of a sounding alarm is there
LockedUnder(s) ==
  {i \in DOMAIN s.doors : /\ UnderDrone(s, s.doors[i])
                          /\ s.doors[i].type = "electronic" /\ ~s.doors[i].open}

WatchingUnder(s) ==
  {i \in DOMAIN s.cameras : UnderDrone(s, s.cameras[i]) /\ s.cameras[i].active}

MovingUnder(s) ==
  {i \in DOMAIN s.guards : UnderDrone(s, s.guards[i]) /\ ~s.guards[i].frozen}

PanelUnder(s) ==
  s.alarmActive /\ \E i \in DOMAIN s.alarmPanels : UnderDrone(s, s.alarmPanels[i])

\* the guard g as a hack leaves it
HackedGuard(s, g) ==
  [g EXCEPT !.frozen = TRUE, !.frozenTimer = s.drone.freezeDuration,
            !.alertLevel = 0, !.alertTimer = 0,
            !.lastKnownThief = Null, !.investigateTarget = Null]

\* t is s with the one target of highest priority hacked and nothing else
\* hackable touched
HitOneTarget(s, t) ==
  IF LockedUnder(s) # {}
  THEN /\ \E i \in LockedUnder(s) : t.doors = [s.doors EXCEPT ![i].open = TRUE]
       /\ t.cameras = s.cameras /\ t.guards = s.guards
       /\ t.alarmActive = s.alarmActive
  ELSE IF WatchingUnder(s) # {}
  THEN /\ \E i \in WatchingUnder(s) : t.cameras = [s.cameras EXCEPT ![i].active = FALSE]
       /\ t.doors = s.doors /\ t.guards = s.guards
       /\ t.alarmActive = s.alarmActive
  ELSE IF MovingUnder(s) # {}
  THEN /\ \E i \in MovingUnder(s) :
            t.guards = [s.guards EXCEPT ![i] = HackedGuard(s, @)]
       /\ t.doors = s.doors /\ t.cameras = s.cameras
       /\ t.alarmActive = s.alarmActive
  ELSE /\ PanelUnder(s) /\ ~t.alarmActive
       /\ t.doors = s.doors /\ t.cameras = s.cameras /\ t.guards = s.guards

\* a hack that took effect
Hacked == DroneHack /\ state' # state

\* C26: a successful hack affects exactly one target, chosen in the order
\* closed electronic door, active camera, non-frozen guard, alarm panel (the
\* panel only while the alarm is active); it takes the hack cost off the
\* battery exactly once and adds one to the hack counter; a hacked guard is
\* frozen for the freeze duration with its alert level, alert timer, last
\* known thief position and investigation target cleared
C26_HackOneTarget ==
  [][Hacked =>
       /\ HitOneTarget(state, state')
       /\ state'.drone.battery = state.drone.battery - state.drone.hackCost
       /\ state'.drone.hacks = state.drone.hacks + 1]_vars

\* seven hacks were made on a battery that pays for six
C26_SeventhHackUnpaid ==
  /\ state.drone.hacks = 7
  /\ state.drone.battery = 0
  /\ 7 * state.drone.hackCost > state.drone.maxBattery

\* a successful hack hits one target in the order of priority, counts once
\* and takes the cost or what is left of the battery
C26_HackOneTargetOrDrained ==
  [][Hacked =>
       /\ HitOneTarget(state, state')
       /\ state'.drone.battery = Max(0, state.drone.battery - state.drone.hackCost)
       /\ state'.drone.hacks = state.drone.hacks + 1]_vars

\* a guard under an alarm panel was hacked while the alarm sounded: the guard
\* froze and the alarm kept sounding
C26_GuardBeforePanel ==
  /\ state.alarmActive
  /\ \E i \in DOMAIN state.guards :
       /\ state.guards[i].frozen /\ state.guards[i].frozenTimer > 3000
       /\ \E a \in DOMAIN state.alarmPanels :
            state.alarmPanels[a].x = state.guards[i].x /\ state.alarmPanels[a].y = state.guards[i].y

\* C27: in every reachable state a guard at alert level 0 has neither an
\* investigation target nor a last known thief position, whatever hacks,
\* EMPs, timer expiries and detections came before
C27_CalmGuardForgets ==
  \A i \in DOMAIN state.guards :
    state.guards[i].alertLevel = 0 =>
      /\ state.guards[i].investigateTarget = Null
      /\ state.guards[i].lastKnownThief = Null

\* the EMP froze a guard that had seen the thief: its alert level is 0 and
\* it still holds the thief's last known position and a running alert timer
C27_FrozenStillRemembers ==
  /\ state.drone.empCharges = 0
  /\ \E i \in DOMAIN state.guards :
       /\ state.guards[i].frozen /\ state.guards[i].alertLevel = 0
       /\ state.guards[i].lastKnownThief # Null
       /\ state.guards[i].alertTimer > 0

\* without the EMP a guard at alert level 0 holds no target
C27_CalmUnlessEMP ==
  state.drone.empCharges > 0 => C27_CalmGuardForgets

\* C28: between any two decrements of the thief's hit points at least 1500 ms
\* of simulated time pass, whatever their sources (guard contact, a laser on
\* a move, a laser on a tick, the alarm running out). A decrement starts an
\* invulnerability of 1500 ms that the ticks count down, so while more than
\* one tick of it is left the last decrement is less than 1400 ms old and no
\* step may take a hit point; and no step may take two.
C28_HitsApart ==
  [][/\ state'.thief.hp >= state.thief.hp - 1
     /\ state.thief.invulnTimer > Dt => state'.thief.hp >= state.thief.hp]_vars

\* the alarm ran out on a thief whose invulnerability was still running: the
\* run is lost on the alarm's hit while the laser's hit is under 1500 ms old
C28_AlarmHitWhileInvulnerable ==
  /\ state.gameOver /\ state.thief.hp = 0
  /\ ~state.alarmActive /\ state.alarmTimer = 0
  /\ state.thief.invulnTimer > 0

\* hits other than the alarm's keep the 1500 ms: while the alarm is off no
\* step takes a hit point from an invulnerable thief, nor two at once
C28_HitsApartButAlarm ==
  [][~state.alarmActive =>
       /\ state'.thief.hp >= state.thief.hp - 1
       /\ state.thief.invulnTimer > Dt => state'.thief.hp >= state.thief.hp]_vars

\* the step is one fire of the room's interval
Ticked == state'.timer = state.timer + Dt

\* guard h is guard g with its freeze counted down by one tick
Thawing(g, h) ==
  IF g.frozenTimer > Dt
  THEN h.frozen /\ h.frozenTimer = g.frozenTimer - Dt
  ELSE ~h.frozen /\ h.frozenTimer = 0

\* C29: while a guard is frozen its position, facing, route index and alert
\* state do not change and it neither detects the thief, nor arms the alarm,
\* nor takes a hit point (the only hit is a sounding alarm running out); a
\* freeze starts with the EMP's 3000 ms or the hack's freeze duration, every
\* tick takes 100 ms off it and nothing else does, and the guard is unfrozen
\* by the tick that takes the last of it and not before
C29_FrozenGuardInert ==
  [][\A i \in DOMAIN state.guards :
       LET g == state.guards[i]
           h == state'.guards[i]
       IN /\ g.frozen =>
               /\ h.x = g.x /\ h.y = g.y /\ h.dir = g.dir /\ h.routeIdx = g.routeIdx
               /\ h.alertLevel = g.alertLevel /\ h.alertTimer = g.alertTimer
               /\ h.lastKnownThief = g.lastKnownThief
               /\ h.investigateTarget = g.investigateTarget
               /\ h.moveTimer = g.moveTimer
               /\ IF Ticked THEN Thawing(g, h)
                  ELSE h.frozen /\ h.frozenTimer = g.frozenTimer
               /\ state'.alarmActive => state.alarmActive
               /\ state'.thief.spotted => state.thief.spotted
               /\ state'.thief.hp < state.thief.hp =>
                    state.alarmActive /\ ~state'.alarmActive
          /\ ~g.frozen /\ h.frozen =>
               h.frozenTimer \in {3000, state.drone.freezeDuration}]_vars

\* the last tick of an EMP freeze is due: the thief stands on the frozen
\* guard's tile, vulnerable and unhurt, and no alarm sounds
C29_FrozenBesideThief ==
  /\ state.drone.empCharges = 0 /\ ~state.alarmActive
  /\ state.thief.hp = state.thief.maxHp /\ state.thief.invulnTimer <= 0
  /\ \E i \in DOMAIN state.guards :
       /\ state.guards[i].frozen /\ state.guards[i].frozenTimer = Dt
       /\ state.guards[i].x = state.thief.x /\ state.guards[i].y = state.thief.y

\* the thief stands on one of the four tiles next to door d
BesideThief(s, d) == Manhattan(s.thief.x, s.thief.y, d.x, d.y) = 1

\* the tick that ends the running pick of door d
PickEnds(d) ==
  /\ Ticked
  /\ state.thief.picking /\ state.thief.pickTimer <= Dt
  /\ state.thief.pickTarget = Pos(d.x, d.y)

\* C30: a door's open flag only ever goes from closed to open. An electronic
\* door opens only by a successful hack with the cursor on it. A physical
\* door opens only when a lock-pick on it completes, a pick that was started
\* with the thief on a 4-adjacent tile and that the thief has stayed beside,
\* and the completion adds one to locksPicked, which nothing else changes
C30_DoorsOpenOnce ==
  [][/\ DOMAIN state'.doors = DOMAIN state.doors
     /\ \A i \in DOMAIN state.doors :
          LET d == state.doors[i]
              e == state'.doors[i]
          IN /\ e.x = d.x /\ e.y = d.y /\ e.type = d.type
             /\ d.open => e.open
             /\ ~d.open /\ e.open =>
                  IF d.type = "electronic"
                  THEN Hacked /\ UnderDrone(state, d)
                  ELSE /\ PickEnds(d)
                       /\ BesideThief(state, d)
                       /\ state'.thief.locksPicked = state.thief.locksPicked + 1
     /\ ~state.thief.picking /\ state'.thief.picking =>
          /\ PickStart
          /\ state'.thief.pickTimer = state.thief.pickSpeed
          /\ \E i \in DOMAIN state.doors :
               /\ state.doors[i].type = "physical" /\ ~state.doors[i].open
               /\ BesideThief(state, state.doors[i])
               /\ state'.thief.pickTarget = Pos(state.doors[i].x, state.doors[i].y)
     /\ state.thief.picking /\ state'.thief.picking =>
          /\ state'.thief.x = state.thief.x /\ state'.thief.y = state.thief.y
          /\ state'.thief.pickTarget = state.thief.pickTarget
     /\ state'.thief.locksPicked # state.thief.locksPicked =>
          \E i \in DOMAIN state.doors :
            /\ state.doors[i].type = "physical"
            /\ ~state.doors[i].open /\ state'.doors[i].open]_vars

\* both doors are open: the physical one picked, counted once, and the
\* electronic one hacked, and the thief has walked through to the exit
C30_BothDoorsOpened ==
  /\ \A i \in DOMAIN state.doors : state.doors[i].open
  /\ \E i \in DOMAIN state.doors : state.doors[i].type = "physical"
  /\ \E i \in DOMAIN state.doors : state.doors[i].type = "electronic"
  /\ state.thief.locksPicked = 1 /\ state.drone.hacks = 1
  /\ state.gameWon

----------------------------------------------------------------------------
(* Safes, moves, noise, alert levels, slots and timers *)

\* the safes a step opens
OpenedSafes ==
  {i \in DOMAIN state.safes : ~state.safes[i].open /\ state'.safes[i].open}

\* C31: a safe becomes open only at a thief move after which the thief is
\* 4-adjacent to the safe and the drone's cursor is on the safe's tile; an
\* open safe stays open, so each safe opens at most once, and its opening
\* adds its value of 1500 to the score (beside the win score when the same
\* move wins the level); no other step that does not win changes the score
C31_SafeOpensOnce ==
  [][/\ \A i \in DOMAIN state.safes :
          LET f == state.safes[i]
              g == state'.safes[i]
          IN /\ g.x = f.x /\ g.y = f.y /\ g.lootValue = f.lootValue
             /\ f.open => g.open
             /\ ~f.open /\ g.open =>
                  /\ ThiefMove
                  /\ Manhattan(state'.thief.x, state'.thief.y, f.x, f.y) = 1
                  /\ state'.drone.x = f.x /\ state'.drone.y = f.y
                  /\ f.lootValue = 1500
                  /\ OpenedSafes = {i}
                  /\ state'.score = state.score + 1500
                                    + (IF state'.gameWon THEN C5_Formula ELSE 0)
     /\ OpenedSafes = {} /\ state'.gameWon = state.gameWon =>
          state'.score = state.score]_vars

\* the safe was opened from the tile beside it before the level was won, and
\* the score holds its 1500 and nothing else
C31_SafeBanked ==
  /\ \E i \in DOMAIN state.safes :
       /\ state.safes[i].open
       /\ Manhattan(state.thief.x, state.thief.y, state.safes[i].x, state.safes[i].y) = 1
       /\ state.drone.x = state.safes[i].x /\ state.drone.y = state.safes[i].y
  /\ ~state.gameWon /\ state.timer > 0
  /\ state.score = 1500

\* tile p lies on the straight line from the thief of s in direction
\* (dx, dy), at most 5 tiles away, with no wall and no edge of the grid on the
\* way
OnThrowLine(s, p, dx, dy) ==
  \E k \in 0..5 :
    /\ p = Pos(s.thief.x + k * dx, s.thief.y + k * dy)
    /\ \A j \in 1..k :
         /\ InGrid(s, s.thief.x + j * dx, s.thief.y + j * dy)
         /\ Tile(s, s.thief.x + j * dx, s.thief.y + j * dy) # "#"

\* the step handles a throw-noise intent that carries dx and dy
NoiseThrown(dx, dy) ==
  /\ pc = "idle" /\ pc' = "idle"
  /\ state' = thiefThrowNoise(state, dx, IF dy = 0 THEN -1 ELSE dy)

\* the step spent a noise charge and dropped a noise-maker on the line in
\* direction (dx, dy)
ThrownAlong(dx, dy) ==
  /\ state'.thief.noiseCharges = state.thief.noiseCharges - 1
  /\ Len(state'.noisemakers) = Len(state.noisemakers) + 1
  /\ SubSeq(state'.noisemakers, 1, Len(state.noisemakers)) = state.noisemakers
  /\ LET nm == state'.noisemakers[Len(state'.noisemakers)]
     IN OnThrowLine(state, Pos(nm.x, nm.y), dx, dy)

\* the level is running and the thief holds a noise charge
CanThrow == ~state.gameOver /\ ~state.gameWon /\ state.thief.noiseCharges > 0

\* C33: a throw-noise intent with at least one charge consumes exactly one
\* charge and places the noise-maker on the straight line from the thief in
\* the requested direction, at most 5 tiles away and before the first wall,
\* so for a horizontal request in the thief's row; with zero charges the
\* intent changes nothing
C33_NoiseOnRequestedLine ==
  [][\A dx \in Deltas, dy \in Deltas :
       (dx # 0 \/ dy # 0) /\ NoiseThrown(dx, dy) =>
         IF CanThrow THEN ThrownAlong(dx, dy)
         ELSE state' = state]_vars

\* a noise-maker lies one row up and one column aside of a thief who still
\* holds no charge: the throw went along a diagonal
C33_NoiseOffTheRow ==
  /\ state.thief.noiseCharges = 0
  /\ \E i \in DOMAIN state.noisemakers :
       /\ state.noisemakers[i].y = state.thief.y - 1
       /\ state.noisemakers[i].x # state.thief.x
       /\ state.noisemakers[i].timer = 5000

\* the noise-maker lands on the line of the direction the handler passes on:
\* dx as sent, dy as sent unless it is 0, which becomes -1
C33_NoiseOnPassedLine ==
  [][\A dx \in Deltas, dy \in Deltas :
       NoiseThrown(dx, dy) =>
         IF CanThrow THEN ThrownAlong(dx, IF dy = 0 THEN -1 ELSE dy)
         ELSE state' = state]_vars

\* guard i holds a lower alert level after the step than before it
Lowered(i) == state'.guards[i].alertLevel < state.guards[i].alertLevel

\* C34: a guard's alert level decreases only to 0, when its alert timer
\* expires or when a hack or an EMP freezes it; a guard at level 2 is never
\* lowered to level 1 by a noise-maker coming into range
C34_AlertDropsToZero ==
  [][\A i \in DOMAIN state.guards :
       (i \in DOMAIN state'.guards /\ Lowered(i)) =>
         /\ state'.guards[i].alertLevel = 0
         /\ \/ state'.guards[i].frozen
            \/ state.guards[i].alertTimer <= Dt]_vars

\* a guard that still remembers where it saw the thief, which only a guard
\* at level 2 does, is at level 1 with the 8000 ms timer of the noise branch,
\* less the decay of the same tick
C34_SpottedThenDistracted ==
  /\ state.noisemakers # <<>>
  /\ \E i \in DOMAIN state.guards :
       /\ state.guards[i].alertLevel = 1
       /\ state.guards[i].alertTimer = 8000 - Dt
       /\ state.guards[i].lastKnownThief # Null

\* without the noise branch the claim holds: a guard that loses alert level
\* while it is out of range of every noise-maker drops to 0, by expiry or by
\* freezing
C34_AlertDropsToZeroButNoise ==
  [][\A i \in DOMAIN state.guards :
       (i \in DOMAIN state'.guards /\ Lowered(i)) =>
         \/ /\ state'.guards[i].alertLevel = 0
            /\ \/ state'.guards[i].frozen
               \/ state.guards[i].alertTimer <= Dt
         \/ /\ state.guards[i].alertLevel = 2
            /\ state'.guards[i].alertLevel = 1
            /\ state'.guards[i].alertTimer = 8000 - Dt
            /\ state.noisemakers # <<>>]_vars

\* tile (x, y) of world s is outside the grid, a wall, a closed door or an
\* unopened safe
Barred(s, x, y) ==
  \/ ~InGrid(s, x, y)
  \/ Tile(s, x, y) = "#"
  \/ \E i \in DOMAIN s.doors : s.doors[i].x = x /\ s.doors[i].y = y /\ ~s.doors[i].open
  \/ \E i \in DOMAIN s.safes : s.safes[i].x = x /\ s.safes[i].y = y /\ ~s.safes[i].open

\* C32: a thief move whose destination is a wall, a closed door, an unopened
\* safe or outside the grid, or that is issued while the thief is picking a
\* lock or after the level is over or won, leaves the whole world state
\* unchanged; so the thief never stands on such a tile
C32_RejectedMoveNoOp ==
  /\ ~Barred(state, state.thief.x, state.thief.y)
  /\ \A dx \in Deltas, dy \in Deltas :
       \/ Barred(state, state.thief.x + dx, state.thief.y + dy)
       \/ state.thief.picking \/ state.gameOver \/ state.gameWon
       => moveThief(state, dx, dy) = state

\* the thief stands at the edge of the grid picking the closed physical
\* door, some ticks into the level: moves are refused on every count
C32_PickingAtClosedDoor ==
  /\ state.thief.picking
  /\ state.thief.x = 0 /\ state.thief.y = 0
  /\ Barred(state, 1, 0)
  /\ Barred(state, -1, 0)
  /\ state.timer > 0
  /\ ~state.gameOver /\ ~state.gameWon

\* the slot of role r in the room is filled
Filled(r) == room.players[r].ws # 0

\* C35: whenever a room with a running simulation is not paused, every filled
\* slot is connected: un-pausing by a reconnect or by a re-join of the drone
\* slot never leaves the simulation running while the other role's slot is
\* disconnected
C35_RunningMeansAllConnected ==
  (room.registered /\ room.hasState /\ ~room.paused) =>
    \A r \in Roles : Filled(r) => room.players[r].connected

\* the simulation runs un-paused for the drone's new connection while the
\* thief's slot is disconnected
C35_RunningWithoutThief ==
  /\ room.registered /\ room.hasState /\ room.interval /\ ~room.paused
  /\ Filled("thief") /\ ~room.players.thief.connected
  /\ room.players.drone.connected
  /\ conns[room.players.drone.ws].readyState = "open"

\* the pause flag follows the last session event: a close that matches its
\* slot pauses the room, a reconnect or a re-join of the drone slot un-pauses
\* it, whatever the state of the other slot
C35_PauseFollowsLastEvent ==
  [][room'.registered /\ room'.hasState /\ room'.paused # room.paused =>
       IF room'.paused
       THEN \E r \in Roles : room.players[r].connected /\ ~room'.players[r].connected
       ELSE \E r \in Roles : /\ room'.players[r].connected
                             /\ room'.players[r].ws # room.players[r].ws]_vars

\* connection c is bound to a slot of the room that has since been re-bound
\* to another connection
Stale(c) ==
  /\ conns[c].readyState = "open"
  /\ conns[c].roomCode = room.code /\ room.registered
  /\ conns[c].role \in Roles
  /\ room.players[conns[c].role].ws # c

\* C36: when a slot has been re-bound to a new connection by reconnect or
\* join, a later close of the old connection does not mark the slot
\* disconnected, pause the room, or schedule a teardown, and writes no frame
C36_StaleCloseInert ==
  [][\A c \in Conns :
       Stale(c) /\ conns'[c].readyState = "closed" =>
         /\ room' = room
         /\ timeouts' = timeouts
         /\ sent' = sent]_vars

\* the old connection of a re-bound slot has closed, and the room runs on
\* un-paused with both slots connected on open connections and no teardown
\* pending
C36_StaleClosedRoomRuns ==
  /\ room.registered /\ room.hasState /\ ~room.paused
  /\ timeouts = {}
  /\ \A r \in Roles : /\ room.players[r].connected
                      /\ conns[room.players[r].ws].readyState = "open"
  /\ \E c \in Conns :
       /\ conns[c].readyState = "closed"
       /\ conns[c].role \in Roles
       /\ room.players[conns[c].role].ws # c

\* the room holds the handle of a live timer exactly when it has a world
\* state, no other timer of the room is running, and a room that is not
\* registered has none
OneTimerPerWorld ==
  /\ room.interval <=> room.registered /\ room.hasState
  /\ room.timers = IF room.interval THEN 1 ELSE 0

\* C37: every registered room has at most one tick timer, and has a timer
\* exactly when it has a world state: host alone creates neither, the first
\* join or hostLocal creates both, later joins, reconnects, nextLevel and
\* retry never start a second timer; a removed room has no running timer
C37_OneTimerPerWorld ==
  [][/\ OneTimerPerWorld'
     /\ room'.timers > room.timers =>
          /\ ~room.hasState /\ room'.hasState
          /\ room'.players.drone.ws # 0
     /\ room'.hasState /\ ~room.hasState => room'.timers = room.timers + 1]_vars

\* a room that has played, with the drone's slot re-filled on a third
\* connection, runs on one timer
C37_RefilledRoomOneTimer ==
  /\ room.registered /\ room.hasState /\ ~room.isLocal
  /\ room.players.drone.ws = 3 /\ room.players.drone.connected
  /\ room.timers = 1
  /\ state.timer > 0

\* a room that had a world has been removed and no timer is left running
C37_RemovedRoomNoTimer ==
  /\ ~room.registered /\ room.code # 0
  /\ room.timers = 0 /\ ~room.interval
  /\ state.timer > 0

\* the step replaces the world: a retry of a lost level, or a nextLevel after
\* a win, which past the last level removes the room instead
WorldReplaced ==
  \/ /\ state.gameOver
     /\ room'.level = 1 /\ room'.totalScore = 0
     /\ state'.timer = 0 /\ state'.level = 1
  \/ /\ state.gameWon
     /\ room'.level = room.level + 1 /\ state'.timer = 0
     /\ state'.level = room'.level
  \/ /\ state.gameWon
     /\ room.level = MaxLevels /\ ~room'.registered

\* C38: gameOver and gameWon are never both true, and once either is set it
\* stays set until the world is replaced by retry or nextLevel; a move that
\* kills the thief on an active laser does not also win
C38_OverOrWonNotBoth ==
  [][/\ ~(state.gameOver /\ state.gameWon)
     /\ ~(state'.gameOver /\ state'.gameWon)
     /\ \/ state.gameOver /\ ~state'.gameOver
        \/ state.gameWon /\ ~state'.gameWon
        \/ state.gameOver /\ state'.gameWon
        \/ state.gameWon /\ state'.gameOver
        => WorldReplaced]_vars

\* the thief stepped back into the active laser with one hit point left: the
\* level is lost, not won, and the thief was not moved
C38_KilledByLaserMove ==
  /\ state.gameOver /\ ~state.gameWon
  /\ state.thief.hp = 0
  /\ state.thief.x # 1
  /\ \E i \in DOMAIN state.lasers :
       /\ state.lasers[i].active
       /\ Manhattan(state.lasers[i].x, state.lasers[i].y, state.thief.x, state.thief.y) = 1

\* a level won after a retry of a lost one: both flags have been set in one
\* run, never together
C38_WonAfterRetry ==
  /\ state.gameWon /\ ~state.gameOver
  /\ room.level = 1 /\ room.totalScore = 0
  /\ room.purchasedUpgrades.thief = <<>>

\* the step takes one intent: no half of the interval's fire
IntentStep == pc = "idle" /\ pc' = "idle" /\ room' = room

\* C39: once the level is over or won, no input intent of either role
\* changes the world state until retry or nextLevel, drone cursor moves and
\* the thief's stop-lock-pick included
C39_EndedLevelIgnoresIntents ==
  [][(state.gameOver \/ state.gameWon) /\ IntentStep => state' = state]_vars

\* the level is won, its last events have been broadcast, and the drone's
\* cursor stands on the thief's start tile, away from the door it hacked and
\* from the exit
C39_CursorMovedAfterWin ==
  /\ state.gameWon
  /\ state.sounds = <<>> /\ pc = "idle"
  /\ state.drone.x = 0 /\ state.drone.y = 0
  /\ state.thief.x = 4

\* all that an intent changes on an ended level is the drone's cursor
C39_EndedLevelMovesCursorOnly ==
  [][(state.gameOver \/ state.gameWon) /\ IntentStep =>
       state' = [state EXCEPT !.drone.x = state'.drone.x,
                              !.drone.y = state'.drone.y]]_vars

\* the step takes an intent that puts the thief on another tile
ThiefRelocated ==
  /\ IntentStep
  /\ state'.timer = state.timer
  /\ <<state'.thief.x, state'.thief.y>> # <<state.thief.x, state.thief.y>>

\* C40: every accepted thief move changes the position by exactly one tile in
\* one of the four cardinal directions, whatever dx and dy the message
\* carries, so no move relocates the thief past a wall or a closed door
C40_MovesOneTile ==
  [][ThiefRelocated =>
       Manhattan(state.thief.x, state.thief.y, state'.thief.x, state'.thief.y) = 1]_vars

\* the thief stands behind the physical door, which is still closed and was
\* never picked
C40_PastClosedDoor ==
  /\ state.thief.x > 1
  /\ \E i \in DOMAIN state.doors :
       /\ state.doors[i].x = 1 /\ state.doors[i].y = 0
       /\ ~state.doors[i].open
  /\ ~state.thief.picking

\* what holds of every relocation: the thief lands on the tile dx and dy away
\* for some dx and dy a message carries, and that tile is not barred
C40_MovesByMessage ==
  [][ThiefRelocated =>
       /\ ~Barred(state, state'.thief.x, state'.thief.y)
       /\ state'.thief.x - state.thief.x \in Strides
       /\ state'.thief.y - state.thief.y \in Strides]_vars

====
